---- MODULE Spec2Model ----
(***************************************************************************)
(* Polymarket opportunity pipeline: record normaliser, eligibility filter, *)
(* scoring engine and bucketing assembler.                                 *)
(*                                                                         *)
(* Units.  The code works on IEEE doubles; the model uses integers:        *)
(*   - instants and durations are milliseconds relative to a fixed epoch   *)
(*     base (the model never needs the absolute value of the base);        *)
(*   - hoursToClose and windowHours are hundredths of an hour, the         *)
(*     resolution computeHoursToClose rounds to;                           *)
(*   - prices and price changes are thousandths (0.05 is 50);              *)
(*   - volume is whole dollars.                                            *)
(***************************************************************************)
EXTENDS Integers, Sequences, FiniteSets, TLC

VARIABLES
    pc,                 \* position of the operation under way
    now,                \* evaluation instant of the call (ms)
    entry,              \* raw event handed to normaliseMarkets
    normalised,         \* what normaliseMarkets returned (or Threw)
    candidate,          \* candidate handed to the scoring functions
    scores,             \* the three scores of `candidate`
    variant,            \* "opportunities" | "flipped" | "velocity"
    data,               \* the batch of raw events the fetch returned
    candidates,         \* the list handed to the assembler
    windowHours,        \* window of the call, in hundredths of an hour
    scoredCandidates,   \* the score-sorted list the fill loop walks
    pos,                \* number of entries of scoredCandidates consumed
    categories,         \* category key -> list of summaries
    result,             \* what the call returned (or Threw)
    clock,              \* the instant nowFn() returns (ms)
    cache,              \* PolymarketService.cache: key -> entry or undefined
    calls,              \* the service calls: position, arguments, outcome
    upstream,           \* the configured endpoint and the response it gives
    tagLists,           \* a tag list and its successive deduplications
    cacheLog            \* the cache's latest set per key and its last operation

serviceVars == <<clock, cache, calls, upstream>>

vars == <<pc, now, entry, normalised, candidate, scores, variant, data, candidates,
          windowHours, scoredCandidates, pos, categories, result, clock, cache, calls,
          upstream, tagLists, cacheLog>>

(***************************************************************************)
(* JavaScript values                                                       *)
(***************************************************************************)
Undefined == [t |-> "undefined"]
Null == [t |-> "null"]
Threw == [t |-> "throw"]
None == [t |-> "none"]

\* a call that returned value, as opposed to Threw
ReturnOf(value) == [t |-> "return", v |-> value]

Num(n) == [t |-> "number", n |-> n]
Str(s) == [t |-> "string", s |-> s]
\* the ISO-8601 text of the instant ms
IsoStr(ms) == [t |-> "string", s |-> "iso", ms |-> ms]
\* a string holding the JSON encoding of the array items
JsonStr(items) == [t |-> "string", s |-> "json", items |-> items]
Bool(b) == [t |-> "boolean", b |-> b]
Arr(items) == [t |-> "array", items |-> items]
Obj(fields) == [t |-> "object", f |-> fields]
\* a number beyond the model's integers: giga * 10^9 + rest
BigNum(giga, rest) == [t |-> "number", giga |-> giga, rest |-> rest]
\* The epoch base of the model's instants is 1.7 * 10^9 seconds, that is
\* 1.7 * 10^12 milliseconds, after 1970.  EpochNum is the number an upstream
\* field holds for the instant `off` seconds, or `off` milliseconds, after
\* the base.
EpochNum(unit, off) ==
    IF unit = "s" THEN BigNum(1, 700000000 + off) ELSE BigNum(1700, off)
GigaOf(v) == IF "giga" \in DOMAIN v THEN v.giga ELSE 0
RestOf(v) == IF "giga" \in DOMAIN v THEN v.rest ELSE v.n
\* instants further than 10^9 ms from the base are kept as these two
FarPast == -1000000000
FarFuture == 1000000000
\* luxon DateTime, always valid when built
DateTimeOf(ms) == [t |-> "datetime", ms |-> ms]

IsNullish(v) == v.t \in {"undefined", "null"}

Abs(n) == IF n < 0 THEN -n ELSE n

\* a ?? b ?? c ... : the first value that is neither null nor undefined
RECURSIVE Coalesce(_)
Coalesce(vs) ==
    IF Len(vs) = 0 THEN Undefined
    ELSE IF Len(vs) = 1 \/ ~IsNullish(Head(vs)) THEN Head(vs)
    ELSE Coalesce(Tail(vs))

\* value.field, for a value that is not null or undefined
Prop(v, field) ==
    IF v.t = "object" /\ field \in DOMAIN v.f THEN v.f[field] ELSE Undefined

\* value?.field
OptProp(v, field) == IF IsNullish(v) THEN Undefined ELSE Prop(v, field)

Truthy(v) ==
    CASE v.t \in {"undefined", "null"} -> FALSE
      [] v.t = "boolean" -> v.b
      [] v.t = "number" -> IF "n" \in DOMAIN v THEN v.n # 0 ELSE TRUE
      [] v.t = "string" -> v.s # ""
      [] OTHER -> TRUE

\* String.prototype.trim on the texts the model uses
Trim(s) ==
    CASE s = "  " -> ""
      [] s = " a " -> "a"
      [] s = " b " -> "b"
      [] s = " x " -> "x"
      [] OTHER -> s

\* Number(text): NaN is modelled as None; text that is empty after trimming
\* converts to 0
NumberOfString(v) ==
    IF v.s \in {"iso", "json"} THEN None
    ELSE CASE Trim(v.s) = "" -> Num(0)
           [] v.s = "Infinity" -> [t |-> "infinity"]
           [] v.s = "0.03" -> Num(30)
           [] v.s = "0.97" -> Num(970)
           [] v.s = "20000" -> Num(20000)
           [] OTHER -> None

\* String.prototype.toLowerCase on the texts the model uses
ToLowerCase(s) ==
    CASE s = "Resolved" -> "resolved"
      [] s = "RESOLVED" -> "resolved"
      [] s = "Open" -> "open"
      [] OTHER -> s

(***************************************************************************)
(* Record normaliser                                                       *)
(***************************************************************************)
Infinity == [t |-> "infinity"]

\* Number.isFinite(value ?? NaN)
IsFiniteNumber(v) == v.t = "number"

asString(v) ==
    IF v.t = "string" THEN (IF Trim(v.s) # "" THEN v.s ELSE "")
    ELSE IF v.t = "number" /\ "n" \in DOMAIN v THEN ToString(v.n)
    ELSE ""

asNullableString(v) ==
    IF v.t = "string" THEN (IF Trim(v.s) # "" THEN Str(v.s) ELSE Null)
    ELSE IF v.t = "number" /\ "n" \in DOMAIN v THEN Str(ToString(v.n))
    ELSE Null

asNullableNumber(v) ==
    IF v.t = "number" THEN v
    ELSE IF v.t = "string"
         THEN (IF NumberOfString(v).t = "number" THEN NumberOfString(v) ELSE Null)
    ELSE Null

parseUnknownArray(v) ==
    IF v.t = "array" THEN v.items
    ELSE IF v.t = "string" /\ v.s = "json" THEN v.items
    ELSE <<>>

RECURSIVE parseNumberList_reduce(_)
parseNumberList_reduce(items) ==
    IF Len(items) = 0 THEN <<>>
    ELSE LET num == asNullableNumber(Head(items))
         IN  (IF num # Null THEN <<num.n>> ELSE <<>>) \o parseNumberList_reduce(Tail(items))

parseNumberList(v) == parseNumberList_reduce(parseUnknownArray(v))

Tag(id, label) == [id |-> id, label |-> label]

\* the tags `collect` pushes for one value: none or one
collect(value) ==
    IF ~Truthy(value) THEN <<>>
    ELSE IF value.t = "string"
         THEN (IF Trim(value.s) # "" THEN <<Tag(Trim(value.s), Trim(value.s))>> ELSE <<>>)
    ELSE IF value.t = "number" THEN <<Tag(ToString(value.n), ToString(value.n))>>
    ELSE IF value.t \in {"object", "array"}
         THEN LET labelCandidate == Coalesce(<<Prop(value, "label"), Prop(value, "name"),
                                               Prop(value, "slug")>>)
                  idCandidate == Coalesce(<<Prop(value, "id"), Prop(value, "slug"),
                                            Prop(value, "label")>>)
              IN  IF labelCandidate.t = "string" /\ Trim(labelCandidate.s) # ""
                  THEN <<Tag(IF idCandidate.t = "string" THEN Trim(idCandidate.s)
                             ELSE IF idCandidate.t = "number" THEN ToString(idCandidate.n)
                             ELSE Trim(labelCandidate.s),
                             Trim(labelCandidate.s))>>
                  ELSE <<>>
    ELSE <<>>

RECURSIVE collectAll(_)
collectAll(items) ==
    IF Len(items) = 0 THEN <<>> ELSE collect(Head(items)) \o collectAll(Tail(items))

\* variant of extractTags that visits the market's sources before the event's
RECURSIVE extractTags_Reversed(_)
extractTags_Reversed(sources) ==
    IF Len(sources) = 0 THEN <<>>
    ELSE extractTags_Reversed(Tail(sources))
            \o (IF ~Truthy(Head(sources)) THEN <<>>
                ELSE IF Head(sources).t = "array" THEN collectAll(Head(sources).items)
                ELSE collect(Head(sources)))

RECURSIVE extractTags(_)
extractTags(sources) ==
    IF Len(sources) = 0 THEN <<>>
    ELSE (IF ~Truthy(Head(sources)) THEN <<>>
          ELSE IF Head(sources).t = "array" THEN collectAll(Head(sources).items)
          ELSE collect(Head(sources)))
            \o extractTags(Tail(sources))

\* variant of deduplicateTags_loop that looks the untrimmed id up
RECURSIVE deduplicateTags_loop_RawLookup(_, _)
deduplicateTags_loop_RawLookup(seen, tags) ==
    IF Len(tags) = 0 THEN seen
    ELSE LET id == Trim(Head(tags).id)
             label == Trim(Head(tags).label)
         IN  IF id = "" \/ label = "" THEN deduplicateTags_loop_RawLookup(seen, Tail(tags))
             ELSE IF \E k \in 1..Len(seen) : seen[k].id = Head(tags).id
                  THEN deduplicateTags_loop_RawLookup(seen, Tail(tags))
             ELSE deduplicateTags_loop_RawLookup(Append(seen, Tag(id, label)), Tail(tags))

\* the loop of deduplicateTags; seen is the Map, in insertion order
RECURSIVE deduplicateTags_loop(_, _)
deduplicateTags_loop(seen, tags) ==
    IF Len(tags) = 0 THEN seen
    ELSE LET id == Trim(Head(tags).id)
             label == Trim(Head(tags).label)
         IN  IF id = "" \/ label = "" THEN deduplicateTags_loop(seen, Tail(tags))
             ELSE IF \E k \in 1..Len(seen) : seen[k].id = id
                  THEN deduplicateTags_loop(seen, Tail(tags))
             ELSE deduplicateTags_loop(Append(seen, Tag(id, label)), Tail(tags))

deduplicateTags(tags) == deduplicateTags_loop(<<>>, tags)

\* typeof v === 'string', DateTime.fromISO(v) and parsed.isValid
ParseIsoField(v) ==
    IF v.t = "string" /\ v.s = "iso" THEN DateTimeOf(v.ms) ELSE Null

\* the model's instant of the number v read as seconds since 1970
InstantOfSeconds(v) ==
    IF GigaOf(v) = 1 /\ Abs(RestOf(v) - 700000000) <= 1000000
    THEN (RestOf(v) - 700000000) * 1000
    ELSE IF GigaOf(v) < 1 \/ (GigaOf(v) = 1 /\ RestOf(v) < 700000000) THEN FarPast
    ELSE FarFuture

\* the model's instant of the number v read as milliseconds since 1970
InstantOfMillis(v) ==
    IF GigaOf(v) = 1700 /\ Abs(RestOf(v)) <= FarFuture THEN RestOf(v)
    ELSE IF GigaOf(v) < 1700 THEN FarPast
    ELSE FarFuture

\* typeof v === 'number', v < 10^12 ? v * 1000 : v, DateTime.fromMillis
ParseEpochField(v) ==
    IF v.t = "number"
    THEN DateTimeOf(IF GigaOf(v) < 1000 THEN InstantOfSeconds(v) ELSE InstantOfMillis(v))
    ELSE Null

\* the first of a chain of resolved dates that is not null
RECURSIVE FirstResolved(_)
FirstResolved(ds) ==
    IF Len(ds) = 0 THEN Null
    ELSE IF Head(ds) # Null THEN Head(ds)
    ELSE FirstResolved(Tail(ds))

\* reading a property of null or undefined throws a TypeError
resolveEndDateFromMarket(market) ==
    IF IsNullish(market) THEN Threw
    ELSE FirstResolved(<<ParseIsoField(Prop(market, "endDate")),
                         ParseIsoField(Prop(market, "endDateIso")),
                         ParseIsoField(Prop(market, "closeDate")),
                         ParseEpochField(Prop(market, "endTime")),
                         ParseEpochField(Prop(market, "closeTime")),
                         ParseIsoField(Prop(market, "timeResolved"))>>)

MinOf(S) == CHOOSE x \in S : \A y \in S : x <= y

\* entry.markets.map(resolveEndDateFromMarket).filter(...).sort(...)[0]
EarliestMarketEndDate(items) ==
    IF \E i \in 1..Len(items) : resolveEndDateFromMarket(items[i]) = Threw THEN Threw
    ELSE LET ms == {resolveEndDateFromMarket(items[i]).ms :
                       i \in {j \in 1..Len(items) : resolveEndDateFromMarket(items[j]) # Null}}
         IN  IF ms = {} THEN Null ELSE DateTimeOf(MinOf(ms))

resolveEndDate(e, market) ==
    LET fromMarket == IF Truthy(market) THEN resolveEndDateFromMarket(market) ELSE Null
        fromEvent == FirstResolved(<<ParseIsoField(Prop(e, "endDate")),
                                     ParseIsoField(Prop(e, "closeDate")),
                                     ParseEpochField(Prop(e, "endTime")),
                                     ParseEpochField(Prop(e, "closeTime"))>>)
    IN  IF fromMarket # Null THEN fromMarket
        ELSE IF fromEvent # Null THEN fromEvent
        ELSE IF Prop(e, "markets").t = "array"
             THEN EarliestMarketEndDate(Prop(e, "markets").items)
        ELSE Null

\* Math.round(x) for x = n / d, d > 0: the nearest integer, halves upwards
RoundDiv(n, d) == (2 * n + d) \div (2 * d)

MillisPerHundredthHour == 36000

computeHoursToClose(endDate, at) ==
    LET diff == endDate.ms - at
    IN  IF diff <= 0 THEN Null
        ELSE Num(RoundDiv(diff, MillisPerHundredthHour))

resolveResolutionState(e, market) ==
    LET marketState == asNullableString(Coalesce(<<OptProp(market, "resolutionState"),
                                                   OptProp(market, "status")>>))
        eventState == asNullableString(Coalesce(<<Prop(e, "resolutionState"),
                                                  Prop(e, "status")>>))
    IN  IF Truthy(marketState) THEN marketState
        ELSE IF OptProp(market, "resolved").t = "boolean"
             THEN (IF OptProp(market, "resolved").b THEN Str("resolved") ELSE Str("unresolved"))
        ELSE IF Truthy(eventState) THEN eventState
        ELSE IF Prop(e, "resolved").t = "boolean"
             THEN (IF Prop(e, "resolved").b THEN Str("resolved") ELSE Str("unresolved"))
        ELSE Null

\* variant of SelectPositive that lets a zero price through
SelectPositive_NonNegative(prices) == SelectSeq(prices, LAMBDA price : price >= 0)

SelectPositive(prices) == SelectSeq(prices, LAMBDA price : price > 0)

\* Math.min(...values): Infinity for no argument
MathMin(values) ==
    IF Len(values) = 0 THEN Infinity
    ELSE Num(MinOf({values[i] : i \in 1..Len(values)}))

resolveBestPrice(outcomePrices) ==
    LET bestPrice == IF Len(outcomePrices) > 0
                     THEN MathMin(SelectPositive(outcomePrices))
                     ELSE Null
    IN  IF IsFiniteNumber(bestPrice) THEN bestPrice ELSE Null

normaliseMarket(e, market, at) ==
    LET endDate == resolveEndDate(e, market)
        outcomePrices == parseNumberList(Coalesce(<<OptProp(market, "outcomePrices"),
                                                    Prop(e, "outcomePrices")>>))
    IN  IF endDate = Threw THEN Threw
        ELSE [question |-> asString(Coalesce(<<OptProp(market, "question"),
                                               OptProp(market, "title"),
                                               OptProp(market, "name"),
                                               Prop(e, "question"),
                                               Prop(e, "title"),
                                               Prop(e, "name"),
                                               Prop(e, "slug"),
                                               Prop(e, "id")>>)),
              endDate |-> IF endDate # Null THEN IsoStr(endDate.ms) ELSE Null,
              hoursToClose |-> IF endDate # Null THEN computeHoursToClose(endDate, at) ELSE Null,
              resolutionState |-> resolveResolutionState(e, market),
              tags |-> extractTags(<<Prop(e, "tags"), Prop(e, "categories"),
                                     OptProp(market, "tags"), OptProp(market, "categories")>>),
              outcomePrices |-> outcomePrices,
              oneDayPriceChange |->
                  asNullableNumber(Coalesce(<<OptProp(market, "oneDayPriceChange"),
                                              Prop(e, "oneDayPriceChange")>>)),
              oneWeekPriceChange |->
                  asNullableNumber(Coalesce(<<OptProp(market, "oneWeekPriceChange"),
                                              Prop(e, "oneWeekPriceChange")>>)),
              bestPrice |-> resolveBestPrice(outcomePrices),
              volume |-> asNullableNumber(Coalesce(<<OptProp(market, "volume"),
                                                     OptProp(market, "volumeNum"),
                                                     Prop(e, "volume")>>)),
              score |-> Null]

\* the markets the event is expanded over: its own list, or [null]
MarketsOf(e) ==
    IF Prop(e, "markets").t = "array" /\ Len(Prop(e, "markets").items) > 0
    THEN Prop(e, "markets").items
    ELSE <<Null>>

normaliseMarkets(e, at) ==
    LET markets == MarketsOf(e)
        mapped == [i \in 1..Len(markets) |-> normaliseMarket(e, markets[i], at)]
    IN  IF \E i \in 1..Len(markets) : mapped[i] = Threw THEN Threw ELSE ReturnOf(mapped)

(***************************************************************************)
(* Inputs of the normaliser specification                                  *)
(***************************************************************************)
MaxMarkets == 2
MaxPrices == 3

Nows == {0, 1000}

\* end dates around the evaluation instants: an hour before, at the instant,
\* a millisecond, a second, 18 and 19 seconds, two hours and 25 hours after
EndOffsets == {-3600000, 0, 1, 1001, 18000, 19000, 7200000, 90000000}

EventDateValues ==
    {Undefined, Str("soon")} \cup {IsoStr(ms) : ms \in EndOffsets}

\* elements a nested market list may hold
MarketElements ==
    { Null, Undefined, Num(5), Str("x"),
      Obj([slug |-> Str("m")]),
      Obj([endDate |-> IsoStr(7200000), question |-> Str("  ")]),
      Obj([endDate |-> Str("soon"), closeTime |-> EpochNum("s", 90000),
           outcomePrices |-> JsonStr(<<Str("0.03"), Str("0.97")>>),
           volume |-> Str("20000")]) }

SeqsUpTo(S, n) == UNION {[1..k -> S] : k \in 0..n}

MarketsValues ==
    {Undefined, Str("x")} \cup {Arr(ms) : ms \in SeqsUpTo(MarketElements, MaxMarkets)}

PriceItems == {Num(0), Num(-1000), Num(30), Num(970), Str("0.03"), Str("n/a")}

PricesValues ==
    {Undefined, Str("n/a")}
        \cup {Arr(ps) : ps \in SeqsUpTo(PriceItems, MaxPrices)}
        \cup {JsonStr(<<Str("0.03"), Str("0.97")>>)}

EventOf(endDate, markets, outcomePrices) ==
    Obj([id |-> Num(77), endDate |-> endDate, markets |-> markets,
         outcomePrices |-> outcomePrices, volume |-> Num(20000),
         resolved |-> Bool(FALSE)])

\* values an upstream numeric field may hold
RawNumberValues ==
    { Undefined, Null, Bool(TRUE), Obj([amount |-> Num(5)]), Arr(<<>>), Num(20000),
      Str(""), Str("  "), Str("20000"), Str("n/a"), Str("Infinity") }

\* events and single markets whose volume and price change hold such a value
NumberEvents ==
    {Obj([id |-> Num(77), endDate |-> IsoStr(7200000), volume |-> v,
          oneDayPriceChange |-> v]) : v \in RawNumberValues}
        \cup {Obj([id |-> Num(77), endDate |-> IsoStr(7200000), volume |-> Num(20000),
                   markets |-> Arr(<<Obj([volumeNum |-> v, oneWeekPriceChange |-> v])>>)]) :
                 v \in RawNumberValues}

\* events of one market whose text fields are missing, null, blank or set
QuestionEvents ==
    {Obj([endDate |-> IsoStr(7200000), title |-> eventTitle, slug |-> eventSlug,
          id |-> eventId,
          markets |-> Arr(<<Obj([question |-> marketQuestion, title |-> marketTitle])>>)]) :
        marketQuestion \in {Undefined, Null, Bool(TRUE), Str("  "), Str("mq")},
        marketTitle \in {Undefined, Str("mt")},
        eventTitle \in {Undefined, Str(" b ")},
        eventSlug \in {Undefined, Str("es")},
        eventId \in {Undefined, Num(77)}}

\* nested markets dated by the several sources, some of them unparseable,
\* and the two numbers around the seconds / milliseconds cut at 10^12
DateMarkets ==
    { Null,
      Obj([slug |-> Str("m")]),
      Obj([endDate |-> Str("soon"), endDateIso |-> IsoStr(3600000),
           closeDate |-> IsoStr(7200000)]),
      Obj([closeDate |-> IsoStr(7200000), endTime |-> EpochNum("s", 3600)]),
      Obj([endDate |-> Num(5), endTime |-> EpochNum("s", 5400),
           closeTime |-> EpochNum("ms", 7200000)]),
      Obj([endTime |-> Str("1700003600"), closeTime |-> EpochNum("ms", 9000000),
           timeResolved |-> IsoStr(1000)]),
      Obj([timeResolved |-> IsoStr(1800000)]),
      Obj([endTime |-> BigNum(999, 999999999)]),
      Obj([closeTime |-> BigNum(1000, 0)]) }

\* the date fields an event may carry itself
EventDateFields ==
    { [id |-> Num(77)],
      [id |-> Num(77), endDate |-> Str("soon"), closeDate |-> IsoStr(10800000)],
      [id |-> Num(77), closeDate |-> Num(5), endTime |-> EpochNum("s", 12600),
       closeTime |-> EpochNum("ms", 14400000)],
      [id |-> Num(77), endTime |-> Str("soon"), closeTime |-> EpochNum("ms", 14400000)] }

DateEvents ==
    {Obj([markets |-> Arr(ms)] @@ fields) :
        ms \in SeqsUpTo(DateMarkets, MaxMarkets), fields \in EventDateFields}

RawEvents ==
    {EventOf(d, m, Arr(<<Num(30), Num(970)>>)) : d \in EventDateValues, m \in MarketsValues}
        \cup {EventOf(IsoStr(7200000), Undefined, p) : p \in PricesValues}
        \cup NumberEvents
        \cup QuestionEvents
        \cup DateEvents

(***************************************************************************)
(* Specification of the normaliser: one raw event, one call                *)
(***************************************************************************)
NoList == <<>>
NoScores == [opportunity |-> 0, flipped |-> 0, velocity |-> 0]
\* no cache operation recorded
NoLog == [sets |-> <<>>, last |-> None]
NoCategories == [none |-> <<>>]

\* no service call under way, nothing cached
ServiceAtRest == clock = 0 /\ cache = <<>> /\ calls = <<>> /\ upstream = None

InitNorm ==
    /\ pc = "norm_ready"
    /\ now \in Nows
    /\ entry \in RawEvents
    /\ normalised = None
    /\ candidate = None
    /\ scores = NoScores
    /\ variant = "none"
    /\ data = NoList
    /\ candidates = NoList
    /\ windowHours = 0
    /\ scoredCandidates = NoList
    /\ pos = 0
    /\ categories = NoCategories
    /\ result = None
    /\ ServiceAtRest
    /\ tagLists = NoList
    /\ cacheLog = NoLog

Normalise ==
    /\ pc = "norm_ready"
    /\ normalised' = normaliseMarkets(entry, now)
    /\ pc' = "norm_done"
    /\ UNCHANGED <<now, entry, candidate, scores, variant, data, candidates,
                   windowHours, scoredCandidates, pos, categories, result>>
    /\ UNCHANGED serviceVars
    /\ UNCHANGED <<tagLists, cacheLog>>

NextNorm == Normalise

SpecNorm == InitNorm /\ [][NextNorm]_vars

NormReturned == pc = "norm_done" /\ normalised # Threw

CandidatesReturned ==
    IF NormReturned THEN {normalised.v[i] : i \in 1..Len(normalised.v)} ELSE {}

\* C1: normaliseMarkets never throws: every call on a raw event ends with a
\* returned candidate list, also when the nested market list holds null or
\* undefined elements and the event carries no date of its own.
C1_NeverThrows == pc = "norm_done" => normalised # Threw

\* the number of candidates the expansion rule asks for
ExpectedCount(e) ==
    IF Prop(e, "markets").t = "array" /\ Len(Prop(e, "markets").items) > 0
    THEN Len(Prop(e, "markets").items)
    ELSE 1

\* C2: normaliseMarkets returns exactly one candidate per element of a
\* non-empty entry.markets and exactly one candidate otherwise.
C2_OnePerMarket ==
    pc = "norm_done" =>
        /\ normalised # Threw
        /\ Len(normalised.v) = ExpectedCount(entry)
        /\ Len(normalised.v) > 0

\* C3: hoursToClose is null when endDate is null or not after now; otherwise
\* it is the difference in hours rounded to 2 decimals and strictly positive.
C3_HoursToClose ==
    \A c \in CandidatesReturned :
        IF c.endDate = Null \/ c.endDate.ms <= now
        THEN c.hoursToClose = Null
        ELSE /\ c.hoursToClose # Null
             /\ 2 * MillisPerHundredthHour * c.hoursToClose.n - MillisPerHundredthHour
                    <= 2 * (c.endDate.ms - now)
             /\ 2 * (c.endDate.ms - now)
                    < 2 * MillisPerHundredthHour * c.hoursToClose.n + MillisPerHundredthHour
             /\ c.hoursToClose.n > 0

PositivePrices(c) ==
    {c.outcomePrices[i] : i \in {j \in 1..Len(c.outcomePrices) : c.outcomePrices[j] > 0}}

\* C4: bestPrice is the minimum of the strictly positive outcome prices,
\* and null when there is none; zero and negative prices are never returned.
C4_BestPrice ==
    \A c \in CandidatesReturned :
        IF PositivePrices(c) = {}
        THEN c.bestPrice = Null
        ELSE /\ c.bestPrice # Null
             /\ c.bestPrice.n \in PositivePrices(c)
             /\ \A p \in PositivePrices(c) : c.bestPrice.n <= p

\* a candidate whose prices hold a zero, a negative and positive entries
C4_Witness ==
    \E c \in CandidatesReturned :
        /\ \E i \in 1..Len(c.outcomePrices) : c.outcomePrices[i] = 0
        /\ \E i \in 1..Len(c.outcomePrices) : c.outcomePrices[i] < 0
        /\ c.bestPrice = Num(30)

\* a candidate without any positive price
C4_WitnessNull ==
    \E c \in CandidatesReturned : Len(c.outcomePrices) > 0 /\ c.bestPrice = Null

\* the raw value each numeric field of candidate i is coerced from
RawNumbersOf(e, i) ==
    LET market == MarketsOf(e)[i]
    IN  [volume |-> Coalesce(<<OptProp(market, "volume"), OptProp(market, "volumeNum"),
                               Prop(e, "volume")>>),
         oneDayPriceChange |-> Coalesce(<<OptProp(market, "oneDayPriceChange"),
                                          Prop(e, "oneDayPriceChange")>>),
         oneWeekPriceChange |-> Coalesce(<<OptProp(market, "oneWeekPriceChange"),
                                           Prop(e, "oneWeekPriceChange")>>)]

NumericFields == {"volume", "oneDayPriceChange", "oneWeekPriceChange"}

\* C12: asNullableNumber gives null for a boolean, an object, the empty
\* string and a whitespace-only string, the parsed number for a
\* numeric-looking string, and null for a string parsing to a non-finite
\* value; so a volume or price change of "" or "  " becomes null, not 0.
C12_NullableNumber ==
    NormReturned =>
        \A i \in 1..Len(normalised.v) : \A field \in NumericFields :
            LET raw == RawNumbersOf(entry, i)[field]
                coerced == normalised.v[i][field]
            IN  /\ raw.t \in {"boolean", "object", "array"} => coerced = Null
                /\ raw \in {Str(""), Str("  ")} => coerced = Null
                /\ raw = Str("20000") => coerced = Num(20000)
                /\ raw \in {Str("n/a"), Str("Infinity")} => coerced = Null

\* a value the claim lets stand as the question
Qualifies(v) ==
    \/ v.t = "string" /\ Trim(v.s) # ""
    \/ v.t = "number" /\ "n" \in DOMAIN v

RECURSIVE FirstQualifying(_)
FirstQualifying(vs) ==
    IF Len(vs) = 0 THEN ""
    ELSE IF Qualifies(Head(vs))
         THEN (IF Head(vs).t = "string" THEN Head(vs).s ELSE ToString(Head(vs).n))
    ELSE FirstQualifying(Tail(vs))

\* the fields the question is taken from, in priority order
QuestionSources(e, market) ==
    <<OptProp(market, "question"), OptProp(market, "title"), OptProp(market, "name"),
      Prop(e, "question"), Prop(e, "title"), Prop(e, "name"), Prop(e, "slug"), Prop(e, "id")>>

\* C13: the question is the first of market.question, market.title,
\* market.name, entry.question, entry.title, entry.name, entry.slug, entry.id
\* that is a string non-empty after trimming or a finite number; a blank
\* earlier field is skipped, and the question is "" only if none qualifies.
C13_Question ==
    NormReturned =>
        \A i \in 1..Len(normalised.v) :
            normalised.v[i].question
                = FirstQualifying(QuestionSources(entry, MarketsOf(entry)[i]))

\* the fallback chain as far as missing and null fields go
QuestionSkipsNullish ==
    NormReturned =>
        \A i \in 1..Len(normalised.v) :
            LET sources == QuestionSources(entry, MarketsOf(entry)[i])
            IN  (\A k \in 1..Len(sources) : IsNullish(sources[k]) \/ Qualifies(sources[k]))
                    => normalised.v[i].question = FirstQualifying(sources)

\* the sources of a market's own end date, in the order of the claim
MarketDateSources(market) ==
    <<ParseIsoField(OptProp(market, "endDate")),
      ParseIsoField(OptProp(market, "endDateIso")),
      ParseIsoField(OptProp(market, "closeDate")),
      ParseEpochField(OptProp(market, "endTime")),
      ParseEpochField(OptProp(market, "closeTime")),
      ParseIsoField(OptProp(market, "timeResolved"))>>

EventDateSources(e) ==
    <<ParseIsoField(Prop(e, "endDate")), ParseIsoField(Prop(e, "closeDate")),
      ParseEpochField(Prop(e, "endTime")), ParseEpochField(Prop(e, "closeTime"))>>

\* the earliest end date the nested markets resolve to, null if none does
EarliestNested(e) ==
    LET items == IF Prop(e, "markets").t = "array" THEN Prop(e, "markets").items ELSE <<>>
        dated == {i \in 1..Len(items) : FirstResolved(MarketDateSources(items[i])) # Null}
    IN  IF dated = {} THEN Null
        ELSE DateTimeOf(MinOf({FirstResolved(MarketDateSources(items[i])).ms : i \in dated}))

ExpectedEndDate(e, market) ==
    FirstResolved(<<FirstResolved(MarketDateSources(market)),
                    FirstResolved(EventDateSources(e)),
                    EarliestNested(e)>>)

EndDateAsExpected(e, market, c) ==
    LET expected == ExpectedEndDate(e, market)
    IN  c.endDate = IF expected = Null THEN Null ELSE IsoStr(expected.ms)

\* C14: the end date is the first resolvable of the market's endDate,
\* endDateIso, closeDate, endTime, closeTime, timeResolved, then the event's
\* endDate, closeDate, endTime, closeTime, then the earliest resolvable end
\* date of the nested markets, else null; a number below 10^12 counts as
\* seconds, one from 10^12 on as milliseconds, and an unparseable earlier
\* source does not stop the fall-through.
C14_EndDateOrder ==
    pc = "norm_done" =>
        /\ normalised # Threw
        /\ \A i \in 1..Len(normalised.v) :
              EndDateAsExpected(entry, MarketsOf(entry)[i], normalised.v[i])
        /\ \A i \in 1..Len(normalised.v) :
              LET market == MarketsOf(entry)[i]
              IN  /\ market = Obj([endTime |-> BigNum(999, 999999999)])
                        => normalised.v[i].endDate = IsoStr(FarFuture)
                  /\ market = Obj([closeTime |-> BigNum(1000, 0)])
                        => normalised.v[i].endDate = IsoStr(FarPast)
                  /\ market = Obj([closeDate |-> IsoStr(7200000),
                                   endTime |-> EpochNum("s", 3600)])
                        => normalised.v[i].endDate = IsoStr(7200000)

\* the order of C14 on every call that returns
EndDateOrderWhenReturned ==
    NormReturned =>
        \A i \in 1..Len(normalised.v) :
            EndDateAsExpected(entry, MarketsOf(entry)[i], normalised.v[i])

(***************************************************************************)
(* Scoring engine.  Every addend is an integer, so the closing             *)
(* Math.round(score) returns score unchanged.                              *)
(***************************************************************************)
\* value ?? fallback, for a number or null
OrElse(v, fallback) == IF v = Null THEN fallback ELSE v.n

\* variant of OpportunityTimeScore whose top tier is worth 75
OpportunityTimeScore_TopTier75(hours) ==
    IF hours <= 400 THEN 75
    ELSE IF hours <= 800 THEN 50
    ELSE IF hours <= 1200 THEN 35
    ELSE IF hours <= 2400 THEN 20
    ELSE IF hours <= 4800 THEN 10
    ELSE IF hours <= 7200 THEN 5
    ELSE 1

OpportunityTimeScore(hours) ==
    IF hours <= 400 THEN 70
    ELSE IF hours <= 800 THEN 50
    ELSE IF hours <= 1200 THEN 35
    ELSE IF hours <= 2400 THEN 20
    ELSE IF hours <= 4800 THEN 10
    ELSE IF hours <= 7200 THEN 5
    ELSE 1

\* variant of OpportunityVolumeScore whose 50K tier is worth less than the
\* 10K tier
OpportunityVolumeScore_DipAt50K(volume) ==
    IF volume >= 1000000 THEN 15
    ELSE IF volume >= 500000 THEN 13
    ELSE IF volume >= 250000 THEN 11
    ELSE IF volume >= 100000 THEN 9
    ELSE IF volume >= 50000 THEN 4
    ELSE IF volume >= 10000 THEN 5
    ELSE 3

OpportunityVolumeScore(volume) ==
    IF volume >= 1000000 THEN 15
    ELSE IF volume >= 500000 THEN 13
    ELSE IF volume >= 250000 THEN 11
    ELSE IF volume >= 100000 THEN 9
    ELSE IF volume >= 50000 THEN 7
    ELSE IF volume >= 10000 THEN 5
    ELSE 3

OpportunityPriceScore(price) ==
    IF price <= 50 THEN 15
    ELSE IF price <= 100 THEN 13
    ELSE IF price <= 150 THEN 11
    ELSE 9

calculateOpportunityScore(c) ==
    OpportunityTimeScore(OrElse(c.hoursToClose, 2400))
        + OpportunityVolumeScore(OrElse(c.volume, 0))
        + OpportunityPriceScore(OrElse(c.bestPrice, 200))

FlippedVolumeScore(volume) ==
    IF volume >= 1000000 THEN 40
    ELSE IF volume >= 500000 THEN 35
    ELSE IF volume >= 250000 THEN 30
    ELSE IF volume >= 100000 THEN 25
    ELSE 20

FlippedMagnitudeScore(flipMagnitude) ==
    IF flipMagnitude >= 500 THEN 40
    ELSE IF flipMagnitude >= 400 THEN 35
    ELSE IF flipMagnitude >= 300 THEN 30
    ELSE IF flipMagnitude >= 200 THEN 25
    ELSE 20

\* variant of FlippedTimeScore that tests the long window first
FlippedTimeScore_LongWindowFirst(hours) ==
    IF hours >= 7200 /\ hours <= 16800 THEN 15
    ELSE IF hours >= 2400 /\ hours <= 7200 THEN 20
    ELSE IF hours >= 1200 /\ hours < 2400 THEN 15
    ELSE 10

FlippedTimeScore(hours) ==
    IF hours >= 2400 /\ hours <= 7200 THEN 20
    ELSE IF hours >= 1200 /\ hours < 2400 THEN 15
    ELSE IF hours >= 7200 /\ hours <= 16800 THEN 15
    ELSE 10

calculateFlippedScore(c) ==
    FlippedVolumeScore(OrElse(c.volume, 0))
        + FlippedMagnitudeScore(Abs(OrElse(c.oneDayPriceChange, 0)))
        + FlippedTimeScore(OrElse(c.hoursToClose, 16800))

VelocityVolumeScore(volume) ==
    IF volume >= 1000000 THEN 50
    ELSE IF volume >= 500000 THEN 45
    ELSE IF volume >= 250000 THEN 40
    ELSE IF volume >= 100000 THEN 35
    ELSE IF volume >= 50000 THEN 30
    ELSE 20

VelocityDayScore(dayVelocity) ==
    IF dayVelocity >= 30 /\ dayVelocity <= 60 THEN 30
    ELSE IF dayVelocity >= 20 /\ dayVelocity < 30 THEN 28
    ELSE IF dayVelocity >= 10 /\ dayVelocity < 20 THEN 25
    ELSE IF dayVelocity >= 60 /\ dayVelocity <= 80 THEN 26
    ELSE IF dayVelocity >= 80 /\ dayVelocity <= 100 THEN 20
    ELSE IF dayVelocity > 100 /\ dayVelocity <= 150 THEN 15
    ELSE IF dayVelocity > 150 /\ dayVelocity <= 200 THEN 10
    ELSE 5

\* variant of VelocityTrendScore for which a change of 0 has either sign
VelocityTrendScore_ZeroEitherSign(weekVelocity, dayChange) ==
    IF weekVelocity # Null /\ dayChange # Null
    THEN LET sameDirection == \/ (weekVelocity.n >= 0 /\ dayChange.n >= 0)
                              \/ (weekVelocity.n <= 0 /\ dayChange.n <= 0)
             absWeekVelocity == Abs(weekVelocity.n)
         IN  IF sameDirection
             THEN (IF absWeekVelocity >= 100 /\ absWeekVelocity <= 300 THEN 20
                   ELSE IF absWeekVelocity >= 50 /\ absWeekVelocity < 100 THEN 15
                   ELSE IF absWeekVelocity >= 300 /\ absWeekVelocity <= 500 THEN 12
                   ELSE IF absWeekVelocity > 500 THEN 8
                   ELSE 5)
             ELSE 3
    ELSE 5

VelocityTrendScore(weekVelocity, dayChange) ==
    IF weekVelocity # Null /\ dayChange # Null
    THEN LET sameDirection == \/ (weekVelocity.n > 0 /\ dayChange.n > 0)
                              \/ (weekVelocity.n < 0 /\ dayChange.n < 0)
             absWeekVelocity == Abs(weekVelocity.n)
         IN  IF sameDirection
             THEN (IF absWeekVelocity >= 100 /\ absWeekVelocity <= 300 THEN 20
                   ELSE IF absWeekVelocity >= 50 /\ absWeekVelocity < 100 THEN 15
                   ELSE IF absWeekVelocity >= 300 /\ absWeekVelocity <= 500 THEN 12
                   ELSE IF absWeekVelocity > 500 THEN 8
                   ELSE 5)
             ELSE 3
    ELSE 5

calculateVelocityScore(c) ==
    VelocityVolumeScore(OrElse(c.volume, 0))
        + VelocityDayScore(Abs(OrElse(c.oneDayPriceChange, 0)))
        + VelocityTrendScore(c.oneWeekPriceChange, c.oneDayPriceChange)

(***************************************************************************)
(* Specification of the scoring engine: one candidate, scored three ways   *)
(***************************************************************************)
Nullable(S) == {Null} \cup {Num(n) : n \in S}

\* values on both sides of every threshold of the three formulas
HoursValues ==
    {0, 1, 200, 400, 401, 800, 1199, 1200, 1201, 2399, 2400, 2401, 4800, 7200, 7201, 16800, 16801}
VolumeValues == {0, 9999, 10000, 20000, 50000, 100000, 250000, 500000, 999999, 1000000}
PriceValues == {10, 30, 50, 51, 100, 150, 151, 200}
DayChangeValues ==
    {-600, -300, -40, 0, 9, 10, 20, 25, 30, 40, 60, 70, 80, 100, 150, 200, 201, 400, 500}
WeekChangeValues == {-150, 0, 49, 50, 100, 150, 300, 301, 500, 501}

ScoreCandidates ==
    [hoursToClose : Nullable(HoursValues),
     volume : Nullable(VolumeValues),
     bestPrice : Nullable(PriceValues),
     oneDayPriceChange : Nullable(DayChangeValues),
     oneWeekPriceChange : Nullable(WeekChangeValues)]

InitScore ==
    /\ pc = "score_ready"
    /\ now = 0
    /\ entry = None
    /\ normalised = None
    /\ candidate \in ScoreCandidates
    /\ scores = NoScores
    /\ variant = "none"
    /\ data = NoList
    /\ candidates = NoList
    /\ windowHours = 0
    /\ scoredCandidates = NoList
    /\ pos = 0
    /\ categories = NoCategories
    /\ result = None
    /\ ServiceAtRest
    /\ tagLists = NoList
    /\ cacheLog = NoLog

Score ==
    /\ pc = "score_ready"
    /\ scores' = [opportunity |-> calculateOpportunityScore(candidate),
                  flipped |-> calculateFlippedScore(candidate),
                  velocity |-> calculateVelocityScore(candidate)]
    /\ pc' = "score_done"
    /\ UNCHANGED <<now, entry, normalised, candidate, variant, data, candidates,
                   windowHours, scoredCandidates, pos, categories, result>>
    /\ UNCHANGED serviceVars
    /\ UNCHANGED <<tagLists, cacheLog>>

NextScore == Score

SpecScore == InitScore /\ [][NextScore]_vars

\* inputs at the top tier of every sub-score of a formula
OpportunityBest ==
    [hoursToClose |-> Num(400), volume |-> Num(1000000), bestPrice |-> Num(50),
     oneDayPriceChange |-> Num(30), oneWeekPriceChange |-> Num(100)]
FlippedBest ==
    [hoursToClose |-> Num(2400), volume |-> Num(1000000), bestPrice |-> Num(50),
     oneDayPriceChange |-> Num(-600), oneWeekPriceChange |-> Null]

\* C10: each of the three scoring functions returns an integer in [0, 100]
\* for every candidate, null fields included, and each formula reaches 100
\* at the top tier of all its sub-scores.
C10_ScoreRange ==
    pc = "score_done" =>
        /\ scores.opportunity \in 0..100
        /\ scores.flipped \in 0..100
        /\ scores.velocity \in 0..100
        /\ candidate = OpportunityBest => scores.opportunity = 100 /\ scores.velocity = 100
        /\ candidate = FlippedBest => scores.flipped = 100

\* the top-tier candidate of the opportunity and velocity formulas was scored
C10_Witness ==
    /\ pc = "score_done"
    /\ candidate = OpportunityBest
    /\ scores.opportunity = 100
    /\ scores.velocity = 100

\* the top-tier candidate of the flipped formula was scored
C10_WitnessFlipped ==
    pc = "score_done" /\ candidate = FlippedBest /\ scores.flipped = 100

\* a candidate with every field missing was scored
C10_WitnessNulls ==
    /\ pc = "score_done"
    /\ candidate.hoursToClose = Null /\ candidate.volume = Null
    /\ candidate.bestPrice = Null /\ candidate.oneDayPriceChange = Null
    /\ scores = [opportunity |-> 32, flipped |-> 55, velocity |-> 30]

Scored == pc = "score_done"

\* the sub-scores behind the velocity score of the scored candidate
DaySubScore ==
    scores.velocity - VelocityVolumeScore(OrElse(candidate.volume, 0))
        - VelocityTrendScore(candidate.oneWeekPriceChange, candidate.oneDayPriceChange)

TrendSubScore ==
    scores.velocity - VelocityVolumeScore(OrElse(candidate.volume, 0))
        - VelocityDayScore(Abs(OrElse(candidate.oneDayPriceChange, 0)))

DayMagnitudes == {Abs(change) : change \in DayChangeValues}

InTargetBand(magnitude) == magnitude >= 30 /\ magnitude <= 80

\* C18: the day-velocity sub-score of every magnitude in [0.03, 0.08] is at
\* least that of every magnitude outside the band, and magnitudes below 0.01
\* or above 0.20 get the lowest sub-score.
C18_DayBand ==
    Scored =>
        LET magnitude == Abs(OrElse(candidate.oneDayPriceChange, 0))
        IN  /\ InTargetBand(magnitude) =>
                  \A other \in DayMagnitudes :
                      ~InTargetBand(other) => DaySubScore >= VelocityDayScore(other)
            /\ (magnitude < 10 \/ magnitude > 200) =>
                  \A other \in DayMagnitudes : DaySubScore <= VelocityDayScore(other)

\* the part of C18 about the two ends of the scale
DayExtremesLowest ==
    Scored =>
        LET magnitude == Abs(OrElse(candidate.oneDayPriceChange, 0))
        IN  (magnitude < 10 \/ magnitude > 200) =>
                \A other \in DayMagnitudes : DaySubScore <= VelocityDayScore(other)

SameNonZeroSign(a, b) == (a > 0 /\ b > 0) \/ (a < 0 /\ b < 0)

\* C19: the trend sub-score is 20 when day and week change are non-null,
\* of the same non-zero sign and 0.10 <= |week| <= 0.30; it is 3 when the
\* signs differ or either is 0, below every same-sign tier and below the 5
\* given when either is null.
C19_Trend ==
    Scored =>
        LET day == candidate.oneDayPriceChange
            week == candidate.oneWeekPriceChange
        IN  IF day = Null \/ week = Null THEN TrendSubScore = 5
            ELSE IF SameNonZeroSign(day.n, week.n)
                 THEN /\ TrendSubScore \in {5, 8, 12, 15, 20}
                      /\ (Abs(week.n) >= 100 /\ Abs(week.n) <= 300) => TrendSubScore = 20
            ELSE TrendSubScore = 3

\* scenario D: day change 0.04 and week change 0.15 scored at the top tier
C19_Witness ==
    /\ Scored
    /\ candidate.oneDayPriceChange = Num(40)
    /\ candidate.oneWeekPriceChange = Num(150)
    /\ TrendSubScore = 20

\* a day change against the week's direction, and a day change of 0
C19_WitnessMismatch ==
    /\ Scored
    /\ candidate.oneWeekPriceChange = Num(150)
    /\ candidate.oneDayPriceChange \in {Num(-40), Num(0)}
    /\ TrendSubScore = 3

FlippedTimeSubScore ==
    scores.flipped - FlippedVolumeScore(OrElse(candidate.volume, 0))
        - FlippedMagnitudeScore(Abs(OrElse(candidate.oneDayPriceChange, 0)))

\* C20: the time sub-score of calculateFlippedScore is 20 exactly for
\* 24 <= hoursToClose <= 72 and 15 or 10 for every other hoursToClose, shorter
\* or longer, and for null; volume and flip magnitude both top out at 40.
C20_FlippedTime ==
    Scored =>
        /\ IF candidate.hoursToClose # Null
              /\ candidate.hoursToClose.n >= 2400 /\ candidate.hoursToClose.n <= 7200
           THEN FlippedTimeSubScore = 20
           ELSE FlippedTimeSubScore \in {10, 15}
        /\ scores.flipped - FlippedTimeSubScore <= 80
        /\ (OrElse(candidate.volume, 0) >= 1000000
               /\ Abs(OrElse(candidate.oneDayPriceChange, 0)) >= 500)
              => scores.flipped - FlippedTimeSubScore = 80
        /\ (OrElse(candidate.volume, 0) >= 1000000
               /\ Abs(OrElse(candidate.oneDayPriceChange, 0)) < 200)
              => scores.flipped - FlippedTimeSubScore = 60
        /\ (OrElse(candidate.volume, 0) < 100000
               /\ Abs(OrElse(candidate.oneDayPriceChange, 0)) >= 500)
              => scores.flipped - FlippedTimeSubScore = 60

\* a candidate closing in exactly 72 hours was scored
C20_Witness ==
    Scored /\ candidate.hoursToClose = Num(7200) /\ FlippedTimeSubScore = 20

\* candidates just outside the window on either side, and without a date
C20_WitnessShorter ==
    Scored /\ candidate.hoursToClose = Num(2399) /\ FlippedTimeSubScore = 15
C20_WitnessLonger ==
    Scored /\ candidate.hoursToClose = Num(7201) /\ FlippedTimeSubScore = 15
C20_WitnessNull ==
    Scored /\ candidate.hoursToClose = Null /\ FlippedTimeSubScore = 15

MaxOf(S) == CHOOSE x \in S : \A y \in S : y <= x

\* the opportunity score of the scored candidate with one field replaced
OpportunityWith(field, n) ==
    calculateOpportunityScore([candidate EXCEPT ![field] = Num(n)])

\* the distance between the highest and the lowest opportunity score the
\* scored candidate gets as one field runs over its values
OpportunitySpread(field, values) ==
    MaxOf({OpportunityWith(field, n) : n \in values})
        - MinOf({OpportunityWith(field, n) : n \in values})

TimeSteps == {400, 800, 1200, 2400, 4800, 7200}
VolumeSteps == {10000, 50000, 100000, 250000, 500000, 1000000}

\* C21: calculateOpportunityScore never increases when hoursToClose
\* increases and drops exactly across 4/8/12/24/48/72 hours, never decreases
\* when volume increases and rises exactly across 10K/50K/100K/250K/500K/1M,
\* and never increases when bestPrice increases; the top time tier (70, for
\* hoursToClose <= 4) and the time spread exceed the volume and price tops
\* (15 each) and spreads.
C21_OpportunityMonotone ==
    Scored =>
        /\ candidate.hoursToClose # Null =>
              \A h \in HoursValues :
                  h > candidate.hoursToClose.n =>
                      /\ OpportunityWith("hoursToClose", h) <= scores.opportunity
                      /\ OpportunityWith("hoursToClose", h) < scores.opportunity
                            <=> \E t \in TimeSteps :
                                    candidate.hoursToClose.n <= t /\ t < h
        /\ candidate.volume # Null =>
              \A v \in VolumeValues :
                  v > candidate.volume.n =>
                      /\ OpportunityWith("volume", v) >= scores.opportunity
                      /\ OpportunityWith("volume", v) > scores.opportunity
                            <=> \E t \in VolumeSteps : candidate.volume.n < t /\ t <= v
        /\ candidate.bestPrice # Null =>
              \A p \in PriceValues :
                  p > candidate.bestPrice.n =>
                      OpportunityWith("bestPrice", p) <= scores.opportunity
        /\ (candidate.hoursToClose # Null /\ candidate.hoursToClose.n <= 400) =>
              /\ scores.opportunity - OpportunityWith("hoursToClose", 16801) = 69
              /\ scores.opportunity
                    - OpportunityVolumeScore(OrElse(candidate.volume, 0))
                    - OpportunityPriceScore(OrElse(candidate.bestPrice, 200)) = 70
        /\ (candidate.volume # Null /\ candidate.volume.n >= 1000000
               /\ candidate.bestPrice # Null /\ candidate.bestPrice.n <= 50) =>
              scores.opportunity
                  - OpportunityTimeScore(OrElse(candidate.hoursToClose, 2400)) = 15 + 15
        /\ OpportunitySpread("hoursToClose", HoursValues)
              > OpportunitySpread("volume", VolumeValues)
        /\ OpportunitySpread("hoursToClose", HoursValues)
              > OpportunitySpread("bestPrice", PriceValues)

\* the candidate closing in 2 hours with volume 20000 and bestPrice 0.03
\* was scored: 70 for the time, 5 for the volume and 15 for the price
C21_Witness ==
    /\ Scored
    /\ candidate.hoursToClose = Num(200)
    /\ candidate.volume = Num(20000)
    /\ candidate.bestPrice = Num(30)
    /\ scores.opportunity = 70 + 5 + 15

(***************************************************************************)
(* Eligibility filter                                                      *)
(***************************************************************************)
\* variant of isWithinWindow that compares the state without lower-casing it
isWithinWindow_CaseSensitive(market, window) ==
    IF market.hoursToClose = Null THEN FALSE
    ELSE IF market.hoursToClose.n <= 0 THEN FALSE
    ELSE IF market.hoursToClose.n > window THEN FALSE
    ELSE IF market.resolutionState # Null
            /\ market.resolutionState.s = "resolved" THEN FALSE
    ELSE TRUE

isWithinWindow(market, window) ==
    IF market.hoursToClose = Null THEN FALSE
    ELSE IF market.hoursToClose.n <= 0 THEN FALSE
    ELSE IF market.hoursToClose.n > window THEN FALSE
    ELSE IF market.resolutionState # Null
            /\ ToLowerCase(market.resolutionState.s) = "resolved" THEN FALSE
    ELSE TRUE

\* variant of resolveBucket whose upper band edges are exclusive
resolveBucket_ExclusiveEdges(price) ==
    IF price = Null \/ price.n < 10 THEN Null
    ELSE IF price.n < 50 THEN Str("oneToFive")
    ELSE IF price.n < 100 THEN Str("fiveToTen")
    ELSE IF price.n < 150 THEN Str("tenToFifteen")
    ELSE IF price.n < 200 THEN Str("fifteenToTwenty")
    ELSE Null

resolveBucket(price) ==
    IF price = Null \/ price.n < 10 THEN Null
    ELSE IF price.n <= 50 THEN Str("oneToFive")
    ELSE IF price.n <= 100 THEN Str("fiveToTen")
    ELSE IF price.n <= 150 THEN Str("tenToFifteen")
    ELSE IF price.n <= 200 THEN Str("fifteenToTwenty")
    ELSE Null

hasInvestableOdds(market) == resolveBucket(market.bestPrice) # Null

\* variant of hasFlipped that compares the signed change
hasFlipped_SignedChange(market) ==
    IF market.oneDayPriceChange = Null THEN FALSE
    ELSE market.oneDayPriceChange.n >= 200

hasFlipped(market) ==
    IF market.oneDayPriceChange = Null THEN FALSE
    ELSE Abs(market.oneDayPriceChange.n) >= 200

resolveFlippedCategory(market) ==
    IF market.oneDayPriceChange = Null THEN Null
    ELSE IF Abs(market.oneDayPriceChange.n) >= 500 THEN Str("aboveFifty")
    ELSE IF Abs(market.oneDayPriceChange.n) >= 200 THEN Str("twentyToFifty")
    ELSE Null

hasVelocity(market) ==
    IF market.oneDayPriceChange = Null THEN FALSE
    ELSE Abs(market.oneDayPriceChange.n) >= 100

\* variant of resolveVelocityCategory whose moderate band starts at 0.15
resolveVelocityCategory_Gap(market) ==
    IF market.oneDayPriceChange = Null THEN Null
    ELSE IF Abs(market.oneDayPriceChange.n) >= 300 THEN Str("rapid")
    ELSE IF Abs(market.oneDayPriceChange.n) >= 200 THEN Str("fast")
    ELSE IF Abs(market.oneDayPriceChange.n) >= 150 THEN Str("moderate")
    ELSE Null

resolveVelocityCategory(market) ==
    IF market.oneDayPriceChange = Null THEN Null
    ELSE IF Abs(market.oneDayPriceChange.n) >= 300 THEN Str("rapid")
    ELSE IF Abs(market.oneDayPriceChange.n) >= 200 THEN Str("fast")
    ELSE IF Abs(market.oneDayPriceChange.n) >= 100 THEN Str("moderate")
    ELSE Null

(***************************************************************************)
(* Scoring methods of the service class, the ones its assembler calls.     *)
(* Its calculateFlippedScore is, line for line, calculateFlippedScore      *)
(* above.                                                                  *)
(***************************************************************************)
ServiceOpportunityVolumeScore(volume) ==
    IF volume >= 1000000 THEN 40
    ELSE IF volume >= 500000 THEN 35
    ELSE IF volume >= 250000 THEN 30
    ELSE IF volume >= 100000 THEN 25
    ELSE IF volume >= 50000 THEN 20
    ELSE 15

ServiceOpportunityTimeScore(hours) ==
    IF hours <= 1200 THEN 30
    ELSE IF hours <= 2400 THEN 25
    ELSE IF hours <= 4800 THEN 20
    ELSE IF hours <= 7200 THEN 15
    ELSE 10

ServiceOpportunityPriceScore(price) ==
    IF price <= 50 THEN 30
    ELSE IF price <= 100 THEN 25
    ELSE IF price <= 150 THEN 20
    ELSE 15

ServiceCalculateOpportunityScore(c) ==
    ServiceOpportunityVolumeScore(OrElse(c.volume, 0))
        + ServiceOpportunityTimeScore(OrElse(c.hoursToClose, 2400))
        + ServiceOpportunityPriceScore(OrElse(c.bestPrice, 200))

ServiceVelocityVolumeScore(volume) ==
    IF volume >= 1000000 THEN 30
    ELSE IF volume >= 500000 THEN 25
    ELSE IF volume >= 250000 THEN 20
    ELSE IF volume >= 100000 THEN 15
    ELSE 10

ServiceVelocityMagnitudeScore(velocity) ==
    IF velocity >= 500 THEN 50
    ELSE IF velocity >= 400 THEN 45
    ELSE IF velocity >= 300 THEN 40
    ELSE IF velocity >= 200 THEN 35
    ELSE IF velocity >= 150 THEN 30
    ELSE 25

ServiceVelocityTimeScore(hours) ==
    IF hours <= 2400 THEN 20
    ELSE IF hours <= 4800 THEN 15
    ELSE IF hours <= 7200 THEN 10
    ELSE 5

ServiceCalculateVelocityScore(c) ==
    ServiceVelocityVolumeScore(OrElse(c.volume, 0))
        + ServiceVelocityMagnitudeScore(Abs(OrElse(c.oneDayPriceChange, 0)))
        + ServiceVelocityTimeScore(OrElse(c.hoursToClose, 16800))

(***************************************************************************)
(* Bucketing / ranking assembler                                           *)
(***************************************************************************)
Variants == {"opportunities", "flipped", "velocity"}

CategoryCapacity == 5

CategoryKeys(v) ==
    CASE v = "opportunities" -> {"oneToFive", "fiveToTen", "tenToFifteen", "fifteenToTwenty"}
      [] v = "flipped" -> {"twentyToFifty", "aboveFifty"}
      [] v = "velocity" -> {"moderate", "fast", "rapid"}

EmptyCategories(v) == [k \in CategoryKeys(v) |-> <<>>]

ScoreFor(v, c) ==
    CASE v = "opportunities" -> ServiceCalculateOpportunityScore(c)
      [] v = "flipped" -> calculateFlippedScore(c)
      [] v = "velocity" -> ServiceCalculateVelocityScore(c)

CategoryFor(v, c) ==
    CASE v = "opportunities" -> resolveBucket(c.bestPrice)
      [] v = "flipped" -> resolveFlippedCategory(c)
      [] v = "velocity" -> resolveVelocityCategory(c)

toSummary(c, score) ==
    [question |-> c.question,
     endDate |-> c.endDate,
     resolutionState |-> c.resolutionState,
     tags |-> deduplicateTags(c.tags),
     outcomePrices |-> c.outcomePrices,
     oneDayPriceChange |-> c.oneDayPriceChange,
     oneWeekPriceChange |-> c.oneWeekPriceChange,
     bestPrice |-> c.bestPrice,
     volume |-> c.volume,
     score |-> IF score # Null THEN score ELSE c.score]

\* variant of InsertDesc for the comparator a.key - b.key, lowest first
RECURSIVE InsertDesc_Ascending(_, _)
InsertDesc_Ascending(sorted, x) ==
    IF Len(sorted) = 0 THEN <<x>>
    ELSE IF Head(sorted).key <= x.key
         THEN <<Head(sorted)>> \o InsertDesc_Ascending(Tail(sorted), x)
         ELSE <<x>> \o sorted

\* variant of InsertDesc that puts x before the elements of equal key
RECURSIVE InsertDesc_BeforeEquals(_, _)
InsertDesc_BeforeEquals(sorted, x) ==
    IF Len(sorted) = 0 THEN <<x>>
    ELSE IF Head(sorted).key > x.key
         THEN <<Head(sorted)>> \o InsertDesc_BeforeEquals(Tail(sorted), x)
         ELSE <<x>> \o sorted

\* Array.prototype.sort with comparator (a, b) => b.key - a.key: stable,
\* highest key first.  InsertDesc puts x after every element whose key is
\* not lower.
RECURSIVE InsertDesc(_, _)
InsertDesc(sorted, x) ==
    IF Len(sorted) = 0 THEN <<x>>
    ELSE IF Head(sorted).key >= x.key
         THEN <<Head(sorted)>> \o InsertDesc(Tail(sorted), x)
         ELSE <<x>> \o sorted

RECURSIVE SortDesc(_)
SortDesc(list) ==
    IF Len(list) = 0 THEN <<>>
    ELSE InsertDesc(SortDesc(SubSeq(list, 1, Len(list) - 1)), list[Len(list)])

\* variant of ScoreAndSort that leaves the candidates in the order given
ScoreAndSort_InputOrder(v, list) ==
    [i \in 1..Len(list) |->
        [candidate |-> list[i],
         score |-> ScoreFor(v, list[i]),
         category |-> CategoryFor(v, list[i])]]

\* candidates.map(score, category) followed by the sort on score
ScoreAndSort(v, list) ==
    LET keyed == SortDesc([i \in 1..Len(list) |->
                     [key |-> ScoreFor(v, list[i]),
                      item |-> [candidate |-> list[i],
                                score |-> ScoreFor(v, list[i]),
                                category |-> CategoryFor(v, list[i])]]])
    IN  [i \in 1..Len(keyed) |-> keyed[i].item]

\* variant of FillOne that lets a list grow one past the capacity
FillOne_OffByOne(cats, item) ==
    IF item.category = Null THEN cats
    ELSE IF Len(cats[item.category.s]) > CategoryCapacity THEN cats
    ELSE [cats EXCEPT ![item.category.s] =
              Append(@, toSummary(item.candidate, Num(item.score)))]

\* variant of FillOne that puts the new summary in front
FillOne_Unshift(cats, item) ==
    IF item.category = Null THEN cats
    ELSE IF Len(cats[item.category.s]) >= CategoryCapacity THEN cats
    ELSE [cats EXCEPT ![item.category.s] =
              <<toSummary(item.candidate, Num(item.score))>> \o @]

\* one iteration of the fill loop
FillOne(cats, item) ==
    IF item.category = Null THEN cats
    ELSE IF Len(cats[item.category.s]) >= CategoryCapacity THEN cats
    ELSE [cats EXCEPT ![item.category.s] =
              Append(@, toSummary(item.candidate, Num(item.score)))]

RECURSIVE FillAll(_, _)
FillAll(cats, items) ==
    IF Len(items) = 0 THEN cats
    ELSE FillAll(FillOne(cats, Head(items)), Tail(items))

\* buildBuckets, buildFlippedCategories and buildVelocityCategories
buildCategories(v, list) == FillAll(EmptyCategories(v), ScoreAndSort(v, list))

(***************************************************************************)
(* Specification of the assembler: one candidate list, one build, the fill *)
(* loop taken one iteration at a time                                      *)
(***************************************************************************)
MaxCandidates == 6
MaxBoundaryCandidates == 2

\* a candidate as the normaliser builds it, closing `hours` hundredths of
\* an hour after the evaluation instant 0
CandidateOf(question, hours, price, volume, dayChange) ==
    [question |-> question,
     endDate |-> IsoStr(hours * MillisPerHundredthHour),
     hoursToClose |-> Num(hours),
     resolutionState |-> Null,
     tags |-> <<>>,
     outcomePrices |-> IF price = Null THEN <<>> ELSE <<price.n, 1000 - price.n>>,
     oneDayPriceChange |-> dayChange,
     oneWeekPriceChange |-> Null,
     bestPrice |-> price,
     volume |-> volume,
     score |-> Null]

\* few candidates, for lists long enough to overfill a category
SmallPool(v) ==
    CASE v = "opportunities" ->
            { CandidateOf("a", 200, Num(30), Num(20000), Null),
              CandidateOf("b", 3000, Num(50), Num(1000000), Null),
              CandidateOf("c", 2000, Num(51), Num(60000), Null),
              CandidateOf("d", 200, Null, Num(20000), Null) }
      [] v = "flipped" ->
            { CandidateOf("a", 200, Num(30), Num(60000), Num(550)),
              CandidateOf("b", 3000, Num(30), Num(1000000), Num(-600)),
              CandidateOf("c", 3000, Num(30), Num(60000), Num(-250)),
              CandidateOf("d", 3000, Num(30), Num(60000), Null) }
      [] v = "velocity" ->
            { CandidateOf("a", 200, Num(30), Num(60000), Num(100)),
              CandidateOf("b", 3000, Num(30), Num(1000000), Num(-150)),
              CandidateOf("c", 3000, Num(30), Num(60000), Num(350)),
              CandidateOf("d", 3000, Num(30), Num(60000), Num(99)) }

\* candidates on both sides of every category boundary
BoundaryPool(v) ==
    CASE v = "opportunities" ->
            {CandidateOf("p", 200, price, Num(20000), Null) :
                price \in Nullable({0, 9, 10, 50, 51, 100, 101, 150, 151, 200, 201})}
      [] v = "flipped" ->
            {CandidateOf("p", 3000, Num(30), Num(60000), change) :
                change \in Nullable({0, 199, 200, -200, 499, 500, -500})}
      [] v = "velocity" ->
            {CandidateOf("p", 3000, Num(30), Num(60000), change) :
                change \in Nullable({0, 99, 100, -100, 199, 200, 299, 300, -300})}

FillInputs(v) ==
    SeqsUpTo(SmallPool(v), MaxCandidates) \cup SeqsUpTo(BoundaryPool(v), MaxBoundaryCandidates)

InitFill ==
    /\ pc = "build_ready"
    /\ now = 0
    /\ entry = None
    /\ normalised = None
    /\ candidate = None
    /\ scores = NoScores
    /\ variant \in Variants
    /\ data = NoList
    /\ candidates \in FillInputs(variant)
    /\ windowHours = 0
    /\ scoredCandidates = NoList
    /\ pos = 0
    /\ categories = NoCategories
    /\ result = None
    /\ ServiceAtRest
    /\ tagLists = NoList
    /\ cacheLog = NoLog

\* the head of buildBuckets: score, categorise, sort, empty categories
BuildStart ==
    /\ pc = "build_ready"
    /\ scoredCandidates' = ScoreAndSort(variant, candidates)
    /\ categories' = EmptyCategories(variant)
    /\ pos' = 0
    /\ pc' = "filling"
    /\ UNCHANGED <<now, entry, normalised, candidate, scores, variant, data, candidates,
                   windowHours, result>>
    /\ UNCHANGED serviceVars
    /\ UNCHANGED <<tagLists, cacheLog>>

\* one iteration of `for (const {candidate, score, category} of scoredCandidates)`
FillStep ==
    /\ pc = "filling"
    /\ pos < Len(scoredCandidates)
    /\ categories' = FillOne(categories, scoredCandidates[pos + 1])
    /\ pos' = pos + 1
    /\ UNCHANGED <<pc, now, entry, normalised, candidate, scores, variant, data, candidates,
                   windowHours, scoredCandidates, result>>
    /\ UNCHANGED serviceVars
    /\ UNCHANGED <<tagLists, cacheLog>>

\* `return categories`
BuildReturn ==
    /\ pc = "filling"
    /\ pos = Len(scoredCandidates)
    /\ result' = ReturnOf(categories)
    /\ pc' = "built"
    /\ UNCHANGED <<now, entry, normalised, candidate, scores, variant, data, candidates,
                   windowHours, scoredCandidates, pos, categories>>
    /\ UNCHANGED serviceVars
    /\ UNCHANGED <<tagLists, cacheLog>>

NextFill == BuildStart \/ FillStep \/ BuildReturn

SpecFill == InitFill /\ [][NextFill]_vars

Filling == pc \in {"filling", "built"}

\* the loop taken step by step builds what buildCategories computes
FillLoopAgrees == pc = "built" => result.v = buildCategories(variant, candidates)

InBand(key, price) ==
    CASE key = "oneToFive" -> 10 <= price /\ price <= 50
      [] key = "fiveToTen" -> 50 < price /\ price <= 100
      [] key = "tenToFifteen" -> 100 < price /\ price <= 150
      [] key = "fifteenToTwenty" -> 150 < price /\ price <= 200

HasPrice(list, price) == \E i \in 1..Len(list) : list[i].bestPrice = price

C6_WitnessLow ==
    /\ pc = "built" /\ variant = "opportunities"
    /\ HasPrice(candidates, Num(9)) /\ HasPrice(candidates, Num(10))
    /\ Len(result.v["oneToFive"]) = 1

CountOfCategory(v, list, key) ==
    Cardinality({i \in 1..Len(list) : CategoryFor(v, list[i]) = Str(key)})

WithoutScore(summary) ==
    [f \in DOMAIN summary \ {"score"} |-> summary[f]]

IsPrefix(short, long) ==
    Len(short) <= Len(long) /\ SubSeq(long, 1, Len(short)) = short

OfCategory(key) == {i \in 1..Len(candidates) : CategoryFor(variant, candidates[i]) = Str(key)}

LowestPlaced(key) == MinOf({result.v[key][j].score.n : j \in 1..Len(result.v[key])})

VolumeFloor_SameForAll(v) == 10000

VolumeFloor(v) == IF v = "opportunities" THEN 10000 ELSE 50000

MoveFilter(v, market) ==
    CASE v = "opportunities" -> TRUE
      [] v = "flipped" -> hasFlipped(market)
      [] v = "velocity" -> hasVelocity(market)

PassesFilters(v, market, window) ==
    /\ OrElse(market.volume, 0) >= VolumeFloor(v)
    /\ hasInvestableOdds(market)
    /\ MoveFilter(v, market)
    /\ isWithinWindow(market, window)

\* data.flatMap((entry) => normaliseMarkets(entry, now))
RECURSIVE FlatMapNormalise(_, _)
FlatMapNormalise(batch, at) ==
    IF Len(batch) = 0 THEN ReturnOf(<<>>)
    ELSE LET first == normaliseMarkets(Head(batch), at)
             rest == FlatMapNormalise(Tail(batch), at)
         IN  IF first = Threw \/ rest = Threw THEN Threw
             ELSE ReturnOf(first.v \o rest.v)

\* the key of the sort that precedes the assembler
PreSortKey(v, market) ==
    IF v = "velocity" THEN Abs(OrElse(market.oneDayPriceChange, 0))
    ELSE OrElse(market.volume, 0)

FilterAndSort(v, list, window) ==
    LET kept == SelectSeq(list, LAMBDA market : PassesFilters(v, market, window))
        keyed == SortDesc([i \in 1..Len(kept) |->
                              [key |-> PreSortKey(v, kept[i]), item |-> kept[i]]])
    IN  [i \in 1..Len(keyed) |-> keyed[i].item]

MaxBatch == 2

\* 24 and 168 hours, the defaults of the three calls
Windows == {2400, 16800}

\* an event every variant accepts but for its end date and resolution state
DatedEvent(endOffset, state) ==
    Obj([slug |-> Str("e"), endDate |-> IsoStr(endOffset), resolutionState |-> state,
         volume |-> Num(60000), oneDayPriceChange |-> Num(250),
         outcomePrices |-> JsonStr(<<Str("0.03"), Str("0.97")>>)])

\* events every variant accepts, tagged at event and market level: ids
\* repeated with other labels, padded and blank ids and labels, a numeric id,
\* a label that is no string, a categories field that is no list
TaggedEvents ==
    { Obj([slug |-> Str("t1"), endDate |-> IsoStr(7200000), volume |-> Num(70000),
           oneDayPriceChange |-> Num(250), outcomePrices |-> Arr(<<Num(40), Num(960)>>),
           tags |-> Arr(<<Obj([id |-> Num(7), label |-> Str(" x ")]),
                          Obj([id |-> Str("7"), label |-> Str("y")]),
                          Str(" a "),
                          Obj([label |-> Num(5), name |-> Str("n")]),
                          Obj([id |-> Str("  "), label |-> Str("x")]),
                          Null>>),
           categories |-> Str("a"),
           markets |-> Arr(<<Obj([tags |-> Arr(<<Obj([slug |-> Str("b")]), Num(7)>>),
                                  categories |-> Arr(<<Str("  "),
                                                       Obj([id |-> Str(" b "),
                                                            name |-> Str("later")])>>)])>>)]),
      Obj([slug |-> Str("t2"), endDate |-> IsoStr(7200000), volume |-> Num(80000),
           oneDayPriceChange |-> Num(-250), outcomePrices |-> Arr(<<Num(40), Num(960)>>),
           categories |-> Arr(<<Obj([slug |-> Str("b"), name |-> Str("y")]), Str("b")>>),
           markets |-> Arr(<<Obj([tags |-> Arr(<<Str("a"), Str(" b ")>>),
                                  categories |-> Arr(<<Obj([id |-> Str("a"),
                                                            label |-> Str("x")])>>)])>>)]),
      Obj([slug |-> Str("t3"), endDate |-> IsoStr(7200000), volume |-> Num(90000),
           oneDayPriceChange |-> Num(550), outcomePrices |-> Arr(<<Num(40), Num(960)>>),
           tags |-> Obj([id |-> Str("a"), label |-> Str("x")]),
           categories |-> Bool(TRUE)]) }

\* one nested market of CrowdedEvent: volume rising and day change falling in
\* magnitude with k, inside one tier of every sub-score
CrowdedMarket(k) ==
    Obj([question |-> Num(k), volume |-> Num(60000 + 1000 * k),
         oneDayPriceChange |-> Num(IF k % 2 = 0 THEN 260 - 10 * k ELSE 10 * k - 260),
         outcomePrices |-> Arr(<<Num(30), Num(970)>>)])

\* an event with six nested markets that every variant accepts, puts in one
\* category and gives one score
CrowdedEvent ==
    Obj([slug |-> Str("crowd"), endDate |-> IsoStr(7200000),
         markets |-> Arr([k \in 1..6 |-> CrowdedMarket(k)])])

BatchEvents ==
    {DatedEvent(off, st) :
        off \in {-3600000, 0, 1000, 7200000, 90000000, 612000000},
        st \in {Undefined, Str("open"), Str("Resolved")}}
    \cup
    { \* resolved by flag, closing in two hours
      Obj([slug |-> Str("r"), endDate |-> IsoStr(7200000), resolved |-> Bool(TRUE),
           volume |-> Num(60000), oneDayPriceChange |-> Num(250),
           outcomePrices |-> Arr(<<Num(30), Num(970)>>)]),
      \* two nested markets, one closed an hour ago, one closing in two hours
      Obj([slug |-> Str("n"), volume |-> Num(1000000), oneDayPriceChange |-> Num(-550),
           outcomePrices |-> Arr(<<Num(120), Num(880)>>),
           markets |-> Arr(<<Obj([question |-> Str("past"), endDate |-> IsoStr(-3600000)]),
                             Obj([question |-> Str("soon"), endDate |-> IsoStr(7200000)])>>)]),
      \* too little volume for the move variants, no price change
      Obj([slug |-> Str("v"), endDate |-> IsoStr(7200000), volume |-> Num(20000),
           outcomePrices |-> Arr(<<Num(30), Num(970)>>)]),
      \* a null in the nested market list and no date on the event
      Obj([slug |-> Str("x"), volume |-> Num(60000), markets |-> Arr(<<Null>>)]) }
    \cup TaggedEvents
    \cup {CrowdedEvent}

Batches == SeqsUpTo(BatchEvents, MaxBatch)

InitPipe ==
    /\ pc = "pipe_ready"
    /\ now = 0
    /\ entry = None
    /\ normalised = None
    /\ candidate = None
    /\ scores = NoScores
    /\ variant \in Variants
    /\ data \in Batches
    /\ candidates = NoList
    /\ windowHours \in Windows
    /\ scoredCandidates = NoList
    /\ pos = 0
    /\ categories = NoCategories
    /\ result = None
    /\ ServiceAtRest
    /\ tagLists = NoList
    /\ cacheLog = NoLog

RunPipeline ==
    /\ pc = "pipe_ready"
    /\ normalised' = FlatMapNormalise(data, now)
    /\ IF normalised' = Threw
       THEN /\ result' = Threw
            /\ UNCHANGED <<candidates, scoredCandidates, pos, categories>>
       ELSE /\ candidates' = FilterAndSort(variant, normalised'.v, windowHours)
            /\ scoredCandidates' = ScoreAndSort(variant, candidates')
            /\ pos' = Len(scoredCandidates')
            /\ categories' = buildCategories(variant, candidates')
            /\ result' = ReturnOf(categories')
    /\ pc' = "pipe_done"
    /\ UNCHANGED <<now, entry, candidate, scores, variant, data, windowHours>>
    /\ UNCHANGED serviceVars
    /\ UNCHANGED <<tagLists, cacheLog>>

NextPipe == RunPipeline

SpecPipe == InitPipe /\ [][NextPipe]_vars

PipeReturned == pc = "pipe_done" /\ result # Threw

InList(list, x) == \E i \in 1..Len(list) : list[i] = x

AllSummaries ==
    UNION {{result.v[key][i] : i \in 1..Len(result.v[key])} : key \in CategoryKeys(variant)}

\* the window predicate as the claim words it
WindowPredicate(c, window) ==
    /\ c.hoursToClose # Null
    /\ c.hoursToClose.n > 0
    /\ c.hoursToClose.n <= window
    /\ c.resolutionState = Null \/ ToLowerCase(c.resolutionState.s) # "resolved"

\* C5: a candidate passes the window filter exactly when hoursToClose is not
\* null, above 0 and at most windowHours and its resolution state,
\* lower-cased, is not "resolved"; so no category of any variant holds a
\* summary whose end date is at or before the evaluation instant.
C5_Window ==
    PipeReturned =>
        /\ \A i \in 1..Len(normalised.v) :
              InList(candidates, normalised.v[i]) <=>
                  /\ WindowPredicate(normalised.v[i], windowHours)
                  /\ OrElse(normalised.v[i].volume, 0) >= VolumeFloor(variant)
                  /\ hasInvestableOdds(normalised.v[i])
                  /\ MoveFilter(variant, normalised.v[i])
        /\ \A s \in AllSummaries : s.endDate # Null /\ s.endDate.ms > now

\* a run over a batch holding an event that ended before the evaluation
\* instant and one marked "Resolved", which put a single market on output
C5_Witness ==
    /\ PipeReturned
    /\ \E i \in 1..Len(normalised.v) :
          /\ normalised.v[i].endDate # Null /\ normalised.v[i].endDate.ms <= now
          /\ normalised.v[i].volume = Num(1000000)
    /\ \E i \in 1..Len(normalised.v) :
          normalised.v[i].resolutionState = Str("Resolved")
    /\ Cardinality(AllSummaries) = 1

\* the event and market each candidate of the batch is normalised from
Origins ==
    UNION {{<<data[k], MarketsOf(data[k])[i]>> : i \in 1..Len(MarketsOf(data[k]))} :
              k \in 1..Len(data)}

\* the tags found in the four sources, in the order of the claim
Occurrences(e, market) ==
    extractTags(<<Prop(e, "tags")>>) \o extractTags(<<Prop(e, "categories")>>)
        \o extractTags(<<OptProp(market, "tags")>>)
        \o extractTags(<<OptProp(market, "categories")>>)

HasIdAndLabel(tag) == Trim(tag.id) # "" /\ Trim(tag.label) # ""

\* occurrence k is the first one of its id that has an id and a label
IsFirstOccurrence(found, k) ==
    /\ HasIdAndLabel(found[k])
    /\ \A j \in 1..(k - 1) :
          HasIdAndLabel(found[j]) => Trim(found[j].id) # Trim(found[k].id)

FirstOccurrences(found) == {k \in 1..Len(found) : IsFirstOccurrence(found, k)}

TagsAsClaimed(tags, found) ==
    /\ \A i, j \in 1..Len(tags) : i # j => tags[i].id # tags[j].id
    /\ Len(tags) = Cardinality(FirstOccurrences(found))
    /\ \A k \in FirstOccurrences(found) :
          LET rank == Cardinality({j \in FirstOccurrences(found) : j <= k})
          IN  tags[rank] = Tag(Trim(found[k].id), Trim(found[k].label))

\* summary is the summary of the candidate normalised from origin
SummaryOf(origin, summary) ==
    WithoutScore(summary) = WithoutScore(toSummary(normaliseMarket(origin[1], origin[2], now),
                                                   Null))

\* C16: in the tags of every output summary each id occurs once, its label
\* is the trimmed label of the first occurrence having a non-empty trimmed id
\* and label, and the ids stand in the order of those first occurrences over
\* event tags, event categories, market tags, market categories.
C16_SummaryTags ==
    PipeReturned =>
        \A summary \in AllSummaries :
            /\ \E origin \in Origins : SummaryOf(origin, summary)
            /\ \A origin \in Origins :
                  SummaryOf(origin, summary)
                      => TagsAsClaimed(summary.tags, Occurrences(origin[1], origin[2]))

\* a summary on output whose sources repeated the ids 7 and b with other
\* labels and held a blank id and padded labels
C16_Witness ==
    /\ PipeReturned
    /\ \E summary \in AllSummaries :
          summary.tags = <<Tag("7", "x"), Tag("a", "a"), Tag("b", "b")>>

\* a summary whose tags come from market tags and a categories list
C16_WitnessMarket ==
    /\ PipeReturned
    /\ \E summary \in AllSummaries : summary.tags = <<Tag("b", "y"), Tag("a", "a")>>

\* the key of the order the claim gives the list handed to the assembler
OrderKey(v, c) ==
    IF v = "velocity"
    THEN (IF c.oneDayPriceChange = Null THEN 0 ELSE Abs(c.oneDayPriceChange.n))
    ELSE (IF c.volume = Null THEN 0 ELSE c.volume.n)

\* the candidates of a category and score, as summaries, in the order of
\* the list handed to the assembler
HandedOver(key, score) ==
    LET ofKey == SelectSeq(candidates, LAMBDA c : /\ CategoryFor(variant, c) = Str(key)
                                                  /\ ScoreFor(variant, c) = score)
    IN  [i \in 1..Len(ofKey) |-> toSummary(ofKey[i], Num(score))]

\* the summaries of a category list that carry a score
PlacedWith(key, score) == SelectSeq(result.v[key], LAMBDA s : s.score = Num(score))

C27_WitnessVelocity ==
    /\ PipeReturned /\ variant = "velocity"
    /\ data = <<CrowdedEvent>>
    /\ [i \in 1..5 |-> Abs(result.v["fast"][i].oneDayPriceChange.n)]
           = <<250, 240, 230, 220, 210>>

(***************************************************************************)
(* Specification of eligibility: the pipeline run on a batch of one event  *)
(* whose volume, price, day change and end date lie on both sides of       *)
(* every threshold of the three variants                                   *)
(***************************************************************************)
EligibilityVolumes == {Undefined, Num(9999), Num(10000), Num(49999), Num(50000), Num(60000)}
EligibilityPrices == {Undefined, Num(9), Num(10), Num(40), Num(200), Num(201)}
EligibilityChanges ==
    {Undefined} \cup {Num(n) : n \in {0, 99, 100, -100, 199, 200, -200, 299, 300, 499,
                                      500, -500, 550}}
\* closing in 2, 100 and 200 hours
EligibilityEndOffsets == {7200000, 360000000, 720000000}

EligibilityEvent(volume, price, change, endOffset) ==
    Obj([slug |-> Str("e"), endDate |-> IsoStr(endOffset), volume |-> volume,
         oneDayPriceChange |-> change,
         outcomePrices |-> IF price = Undefined THEN Undefined
                           ELSE Arr(<<price, Num(1000 - price.n)>>)])

EligibilityEvents ==
    {EligibilityEvent(volume, price, change, endOffset) :
        volume \in EligibilityVolumes, price \in EligibilityPrices,
        change \in EligibilityChanges, endOffset \in EligibilityEndOffsets}

InitEligible ==
    /\ pc = "pipe_ready"
    /\ now = 0
    /\ entry = None
    /\ normalised = None
    /\ candidate = None
    /\ scores = NoScores
    /\ variant \in Variants
    /\ data \in {<<e>> : e \in EligibilityEvents}
    /\ candidates = NoList
    /\ windowHours \in Windows
    /\ scoredCandidates = NoList
    /\ pos = 0
    /\ categories = NoCategories
    /\ result = None
    /\ ServiceAtRest
    /\ tagLists = NoList
    /\ cacheLog = NoLog

SpecEligible == InitEligible /\ [][NextPipe]_vars

\* the candidate the run normalised from its one event
TheCandidate == normalised.v[1]

AbsChange(c) == Abs(c.oneDayPriceChange.n)

\* eligibility for the flip variant, as the claim words it
FlipEligible(c, window) ==
    /\ c.volume # Null /\ c.volume.n >= 50000
    /\ c.bestPrice # Null /\ c.bestPrice.n >= 10 /\ c.bestPrice.n <= 200
    /\ c.oneDayPriceChange # Null /\ AbsChange(c) >= 200
    /\ WindowPredicate(c, window)

C22_WitnessNegative ==
    /\ PipeReturned /\ variant = "flipped"
    /\ TheCandidate.oneDayPriceChange = Num(-200)
    /\ Len(result.v["twentyToFifty"]) = 1

\* the band of each category, as the claim gives it
InCategoryBand(key, c) ==
    CASE key \in CategoryKeys("opportunities") -> InBand(key, c.bestPrice.n)
      [] key = "twentyToFifty" -> 200 <= AbsChange(c) /\ AbsChange(c) < 500
      [] key = "aboveFifty" -> AbsChange(c) >= 500
      [] key = "moderate" -> 100 <= AbsChange(c) /\ AbsChange(c) < 200
      [] key = "fast" -> 200 <= AbsChange(c) /\ AbsChange(c) < 300
      [] key = "rapid" -> AbsChange(c) >= 300

\* the number of times the candidate is listed in a category
TimesListed(key, c) ==
    Cardinality({i \in 1..Len(result.v[key]) :
                    WithoutScore(result.v[key][i]) = WithoutScore(toSummary(c, Null))})

C29_WitnessPrice ==
    /\ PipeReturned /\ variant = "opportunities"
    /\ TheCandidate.bestPrice = Num(200)
    /\ Len(result.v["fifteenToTwenty"]) = 1
C29_WitnessFlip ==
    /\ PipeReturned /\ variant = "flipped"
    /\ TheCandidate.oneDayPriceChange = Num(200)
    /\ Len(result.v["twentyToFifty"]) = 1

\* C30: every summary in an output category has a volume, and it is at
\* least 10000 in the opportunities buckets and at least 50000 in the
\* flipped and velocity categories; a candidate without volume is in no
\* output.
C30_LiquidityFloor ==
    PipeReturned =>
        /\ \A s \in AllSummaries :
              /\ s.volume # Null
              /\ s.volume.n >= (IF variant = "opportunities" THEN 10000 ELSE 50000)
        /\ TheCandidate.volume = Null => AllSummaries = {}

\* an opportunity with volume exactly 10000 is on output
C30_Witness ==
    /\ PipeReturned /\ variant = "opportunities"
    /\ TheCandidate.volume = Num(10000)
    /\ Cardinality(AllSummaries) = 1

\* a flip with volume exactly 50000 is on output, one with 49999 or without
\* volume is not although its price, change and end date are accepted
C30_WitnessFlip ==
    /\ PipeReturned /\ variant = "flipped"
    /\ TheCandidate.volume = Num(50000)
    /\ Cardinality(AllSummaries) = 1
C30_WitnessBelow ==
    /\ PipeReturned /\ variant = "velocity"
    /\ TheCandidate.volume = Num(49999)
    /\ TheCandidate.bestPrice = Num(40) /\ TheCandidate.oneDayPriceChange = Num(300)
    /\ TheCandidate.hoursToClose = Num(200)
    /\ AllSummaries = {}
C30_WitnessNull ==
    /\ PipeReturned /\ variant = "opportunities"
    /\ TheCandidate.volume = Null
    /\ TheCandidate.bestPrice = Num(40) /\ TheCandidate.hoursToClose = Num(200)
    /\ AllSummaries = {}

(***************************************************************************)
(* The service behind its cache: getOpportunities, getFlipped and          *)
(* getVelocity as concurrent calls.  A call runs synchronously to its      *)
(* `await this.fetchEvents(...)`, and again from the fetch's completion to *)
(* its return; calls interleave at the await.                              *)
(***************************************************************************)
CacheTtlMillis == 60000

EmptyCache == [key \in Variants |-> Undefined]

CacheEntry(payload, expiresAt) ==
    [t |-> "object", payload |-> payload, expiresAt |-> expiresAt]

\* variant of lookupCache for which an entry is still fresh at the instant
\* it expires
lookupCache_ExclusiveExpiry(store, key, at) ==
    IF ~Truthy(store[key]) THEN [cache |-> store, value |-> Null]
    ELSE IF store[key].expiresAt < at
         THEN [cache |-> [store EXCEPT ![key] = Undefined], value |-> Null]
    ELSE [cache |-> store, value |-> store[key].payload]

\* lookupCache: the cache it leaves and the value it returns
lookupCache(store, key, at) ==
    IF ~Truthy(store[key]) THEN [cache |-> store, value |-> Null]
    ELSE IF store[key].expiresAt <= at
         THEN [cache |-> [store EXCEPT ![key] = Undefined], value |-> Null]
    ELSE [cache |-> store, value |-> store[key].payload]

setCache(store, key, payload, at) ==
    [store EXCEPT ![key] = CacheEntry(payload, at + CacheTtlMillis)]

\* a thrown PolymarketServiceError; Threw stands for any other error
ServiceError(status) ==
    [t |-> "throw", error |-> "PolymarketServiceError", status |-> status]

\* values of POLYMARKET_API_URL: unset, and text `new URL` rejects
ApiUrlValues == {Undefined, Str("not a url")}

buildUrl(base) ==
    IF base = Str("not a url") THEN ServiceError(500) ELSE ReturnOf(Coalesce(<<base, Str("default")>>))

\* buildUrl and fetchEvents of fetcher.ts; the private methods of the
\* service class are the same text.
\* what `await fetch(url)` gives: a rejection, or a response
Unreachable == [t |-> "unreachable"]
HttpResponse(status, body) == [t |-> "response", status |-> status, body |-> body]
\* a body response.json() rejects
InvalidJson == [t |-> "invalid"]

ResponseOk(response) == response.status >= 200 /\ response.status <= 299

\* variant of fetchEvents that gives every non-ok response the status 502
fetchEvents_AlwaysBadGateway(response) ==
    IF response = Unreachable THEN ServiceError(502)
    ELSE IF ~ResponseOk(response) THEN ServiceError(502)
    ELSE IF response.body = InvalidJson THEN ServiceError(500)
    ELSE IF response.body.t = "array" THEN ReturnOf(response.body.items)
    ELSE IF Truthy(response.body) /\ response.body.t = "object"
         THEN (IF Prop(response.body, "events").t = "array"
               THEN ReturnOf(Prop(response.body, "events").items)
               ELSE IF Prop(response.body, "markets").t = "array"
                    THEN ReturnOf(Prop(response.body, "markets").items)
               ELSE ServiceError(500))
    ELSE ServiceError(500)

fetchEvents(response) ==
    IF response = Unreachable THEN ServiceError(502)
    ELSE IF ~ResponseOk(response)
         THEN ServiceError(IF response.status >= 500 THEN 502 ELSE 500)
    ELSE IF response.body = InvalidJson THEN ServiceError(500)
    ELSE IF response.body.t = "array" THEN ReturnOf(response.body.items)
    ELSE IF Truthy(response.body) /\ response.body.t = "object"
         THEN (IF Prop(response.body, "events").t = "array"
               THEN ReturnOf(Prop(response.body, "events").items)
               ELSE IF Prop(response.body, "markets").t = "array"
                    THEN ReturnOf(Prop(response.body, "markets").items)
               ELSE ServiceError(500))
    ELSE ServiceError(500)

\* the run of one call on a fetched batch: normalise, filter, sort, assemble
runPipeline(v, batch, at, window) ==
    LET flat == FlatMapNormalise(batch, at)
    IN  IF flat = Threw THEN Threw
        ELSE ReturnOf(buildCategories(v, FilterAndSort(v, flat.v, window)))

\* the status the controller replies with
ControllerStatus(outcome) ==
    IF outcome.t = "return" THEN 200
    ELSE IF "error" \in DOMAIN outcome /\ outcome.error = "PolymarketServiceError"
         THEN outcome.status
    ELSE 500

\* the window a variant's method defaults to, the one the controller uses
DefaultWindow(v) == IF v = "opportunities" THEN 2400 ELSE 16800

(***************************************************************************)
(* Specification of the service                                            *)
(***************************************************************************)
MaxCalls == 2

CallIds == 1..MaxCalls

\* instants nowFn() returns: the first call's, half a minute later, and
\* the instant a cache entry written at 0 expires
ClockValues == {0, 30000, 60000}

\* what the upstream holds during the run: an event closing in half a
\* minute next to one closing in 25 hours, or an event whose market list
\* holds a null
ServiceBatches ==
    { <<DatedEvent(30000, Undefined), DatedEvent(90000000, Str("open"))>>,
      <<Obj([slug |-> Str("x"), volume |-> Num(60000), markets |-> Arr(<<Null>>)])>> }

\* responses the upstream may give while it holds batch
Responses(batch) ==
    {Unreachable}
        \cup {HttpResponse(status, Arr(batch)) : status \in {200, 404, 500, 503}}
        \cup {HttpResponse(200, body) :
                 body \in { InvalidJson, Null,
                            Obj([events |-> Arr(batch)]),
                            Obj([markets |-> Arr(batch)]),
                            Obj([data |-> Arr(batch)]) }}

IdleCall ==
    [pc |-> "idle", variant |-> "none", now |-> 0, windowHours |-> 0,
     outcome |-> None, status |-> 0]

InitService ==
    /\ pc = "serving"
    /\ now = 0
    /\ entry = None
    /\ normalised = None
    /\ candidate = None
    /\ scores = NoScores
    /\ variant = "none"
    /\ data \in ServiceBatches
    /\ candidates = NoList
    /\ windowHours = 0
    /\ scoredCandidates = NoList
    /\ pos = 0
    /\ categories = NoCategories
    /\ result = None
    /\ clock = 0
    /\ cache = EmptyCache
    /\ calls = [i \in CallIds |-> IdleCall]
    /\ upstream = None
    /\ tagLists = NoList
    /\ cacheLog = NoLog

pipelineVars ==
    <<pc, now, entry, normalised, candidate, scores, variant, data, candidates,
      windowHours, scoredCandidates, pos, categories, result>>

\* time passes between two steps of the service
Tick ==
    /\ pc = "serving"
    /\ \E later \in ClockValues : later > clock /\ clock' = later
    /\ UNCHANGED <<cache, calls, upstream, tagLists, cacheLog>>
    /\ UNCHANGED pipelineVars

Finished(call, position, outcome) ==
    [call EXCEPT !.pc = position, !.outcome = outcome, !.status = ControllerStatus(outcome)]

\* a call from its entry to its first await: nowFn(), lookupCache and
\* either `return cached` (a payload is an object, so `if (cached)` tests
\* for null), a throw of buildUrl, or the fetch sent
CallEnters(i, v, window, base) ==
    LET looked == lookupCache(cache, v, clock)
        started == [IdleCall EXCEPT !.variant = v, !.now = clock, !.windowHours = window]
    IN  /\ pc = "serving"
        /\ calls[i].pc = "idle"
        /\ cache' = looked.cache
        /\ calls' = [calls EXCEPT ![i] =
               IF looked.value # Null
               THEN Finished(started, "returned_cached", ReturnOf(looked.value))
               ELSE IF buildUrl(base).t = "throw"
                    THEN Finished(started, "threw", buildUrl(base))
               ELSE [started EXCEPT !.pc = "fetching"]]
        /\ UNCHANGED <<clock, upstream, tagLists, cacheLog>>
        /\ UNCHANGED pipelineVars

\* variant of CallResumes that caches an empty payload when the fetch fails
CallResumes_CachesFailure(i, response) ==
    /\ pc = "serving"
    /\ calls[i].pc = "fetching"
    /\ \E fetched \in {fetchEvents(response)} :
          IF fetched.t = "throw"
          THEN /\ calls' = [calls EXCEPT ![i] = Finished(@, "threw", fetched)]
               /\ cache' = setCache(cache, calls[i].variant,
                                    EmptyCategories(calls[i].variant), calls[i].now)
          ELSE \E payload \in {runPipeline(calls[i].variant, fetched.v, calls[i].now,
                                            calls[i].windowHours)} :
                  IF payload = Threw
                  THEN /\ calls' = [calls EXCEPT ![i] = Finished(@, "threw", Threw)]
                       /\ UNCHANGED cache
                  ELSE /\ cache' = setCache(cache, calls[i].variant, payload.v,
                                            calls[i].now)
                       /\ calls' = [calls EXCEPT ![i] = Finished(@, "returned", payload)]
    /\ UNCHANGED <<clock, upstream, tagLists, cacheLog>>
    /\ UNCHANGED pipelineVars

\* a call from the completion of its fetch to its return or throw
CallResumes(i, response) ==
    /\ pc = "serving"
    /\ calls[i].pc = "fetching"
    /\ \E fetched \in {fetchEvents(response)} :
          IF fetched.t = "throw"
          THEN /\ calls' = [calls EXCEPT ![i] = Finished(@, "threw", fetched)]
               /\ UNCHANGED cache
          ELSE \E payload \in {runPipeline(calls[i].variant, fetched.v, calls[i].now,
                                            calls[i].windowHours)} :
                  IF payload = Threw
                  THEN /\ calls' = [calls EXCEPT ![i] = Finished(@, "threw", Threw)]
                       /\ UNCHANGED cache
                  ELSE /\ cache' = setCache(cache, calls[i].variant, payload.v,
                                            calls[i].now)
                       /\ calls' = [calls EXCEPT ![i] = Finished(@, "returned", payload)]
    /\ UNCHANGED <<clock, upstream, tagLists, cacheLog>>
    /\ UNCHANGED pipelineVars

\* calls are taken in the order of their ids
CallStart(i) ==
    /\ \A j \in CallIds : j < i => calls[j].pc # "idle"
    /\ \E v \in Variants, window \in Windows, base \in ApiUrlValues :
          CallEnters(i, v, window, base)

FetchDone(i) == \E response \in Responses(data) : CallResumes(i, response)

NextService ==
    \/ Tick
    \/ \E i \in CallIds : CallStart(i)
    \/ \E i \in CallIds : FetchDone(i)

SpecService == InitService /\ [][NextService]_vars

\* C11: a call answered from the cache returns what an uncached run of the
\* pipeline returns for the same batch, the call's own evaluation instant
\* and the call's own windowHours.
C11_CacheTransparent ==
    pc = "serving" =>
        \A i \in CallIds :
            calls[i].pc = "returned_cached" =>
                calls[i].outcome = runPipeline(calls[i].variant, data, calls[i].now,
                                               calls[i].windowHours)

\* C24: of the invocations for one variant key running concurrently, at
\* most one has an upstream fetch under way: an invocation arriving during
\* another one's fetch does not start its own.
C24_SingleFetchPerKey ==
    pc = "serving" =>
        \A i, j \in CallIds :
            (i # j /\ calls[i].pc = "fetching" /\ calls[j].pc = "fetching")
                => calls[i].variant # calls[j].variant

\* the call threw a PolymarketServiceError: its fetch or buildUrl failed
FailedUpstream(call) ==
    call.pc = "threw" /\ call.outcome # Threw /\ call.outcome.error = "PolymarketServiceError"

\* C26: a call whose fetch fails throws and writes nothing to the cache; a
\* call whose URL construction fails throws and leaves the cache as its
\* lookup left it, without an entry for its key and with the other keys'
\* entries untouched; and while a key has no entry, the next call for it is
\* not answered from the cache.
C26_FailureLeavesCache ==
    [][pc = "serving" =>
          \A i \in CallIds :
              /\ (calls[i].pc = "fetching" /\ FailedUpstream(calls'[i])) => cache' = cache
              /\ (calls[i].pc = "idle" /\ FailedUpstream(calls'[i])) =>
                    /\ cache'[calls'[i].variant] = Undefined
                    /\ \A other \in Variants \ {calls'[i].variant} :
                          cache'[other] = cache[other]
              /\ (calls[i].pc = "idle" /\ calls'[i].pc # "idle"
                     /\ cache[calls'[i].variant] = Undefined)
                    => calls'[i].pc \in {"fetching", "threw"}
     ]_vars

\* a call has failed on its fetch, nothing is cached for its key, and the
\* next call for the key awaits its own fetch
C26_Witness ==
    /\ pc = "serving"
    /\ FailedUpstream(calls[1]) /\ calls[1].status = 502
    /\ calls[2].variant = calls[1].variant
    /\ calls[2].pc = "fetching"
    /\ cache[calls[1].variant] = Undefined

\* a call failed on its URL while another key was cached
C26_WitnessOtherKey ==
    /\ pc = "serving"
    /\ calls[1].pc = "returned" /\ calls[1].variant = "flipped"
    /\ FailedUpstream(calls[2]) /\ calls[2].variant = "velocity"
    /\ cache["flipped"] # Undefined /\ cache["velocity"] = Undefined

(***************************************************************************)
(* Specification of the cache: any sequence of set, lookup and clear.      *)
(* MarketCache of cache.ts and the cache methods of the service class are  *)
(* the same text.  Lookups carry the instants of a clock that never runs   *)
(* backwards; a set may carry an earlier instant, the one its call took    *)
(* before awaiting the fetch.                                              *)
(***************************************************************************)
\* instants around the expiry of an entry set at 0
CacheInstants == {0, 59999, 60000, 60001, 120000}

CachePayloads == {Str("p"), Str("q")}

CacheOperation(op, key, at, value) == [op |-> op, key |-> key, at |-> at, value |-> value]

InitCache ==
    /\ pc = "caching"
    /\ now = 0
    /\ entry = None
    /\ normalised = None
    /\ candidate = None
    /\ scores = NoScores
    /\ variant = "none"
    /\ data = NoList
    /\ candidates = NoList
    /\ windowHours = 0
    /\ scoredCandidates = NoList
    /\ pos = 0
    /\ categories = NoCategories
    /\ result = None
    /\ clock = 0
    /\ cache = EmptyCache
    /\ calls = <<>>
    /\ upstream = None
    /\ tagLists = NoList
    /\ cacheLog = [sets |-> [key \in Variants |-> None], last |-> None]

\* lookup(key, now)
CacheLookup(key, at) ==
    /\ pc = "caching"
    /\ at >= clock
    /\ clock' = at
    /\ \E looked \in {lookupCache(cache, key, at)} :
          /\ cache' = looked.cache
          /\ cacheLog' = [cacheLog EXCEPT
                              !.last = CacheOperation("lookup", key, at, looked.value)]
    /\ UNCHANGED <<calls, upstream, tagLists>>
    /\ UNCHANGED pipelineVars

\* set(key, payload, now)
CacheSet(key, payload, at) ==
    /\ pc = "caching"
    /\ clock' = IF at > clock THEN at ELSE clock
    /\ cache' = setCache(cache, key, payload, at)
    /\ cacheLog' = [sets |-> [cacheLog.sets EXCEPT ![key] = [payload |-> payload, at |-> at]],
                    last |-> CacheOperation("set", key, at, payload)]
    /\ UNCHANGED <<calls, upstream, tagLists>>
    /\ UNCHANGED pipelineVars

\* clear()
CacheClear ==
    /\ pc = "caching"
    /\ cache' = EmptyCache
    /\ cacheLog' = [sets |-> [key \in Variants |-> None],
                    last |-> CacheOperation("clear", "none", clock, Null)]
    /\ UNCHANGED <<clock, calls, upstream, tagLists>>
    /\ UNCHANGED pipelineVars

NextCache ==
    \/ \E key \in Variants, at \in CacheInstants : CacheLookup(key, at)
    \/ \E key \in Variants, payload \in CachePayloads, at \in CacheInstants :
          CacheSet(key, payload, at)
    \/ CacheClear

SpecCache == InitCache /\ [][NextCache]_vars

OtherKeysKept(key) == \A other \in Variants \ {key} : cache'[other] = cache[other]

\* C25: with (p, t) the latest set of a key not followed by a clear, a
\* lookup of the key at now returns p when t <= now < t + 60s and null when
\* now >= t + 60s, the entry being removed; a lookup of a key never set, or
\* cleared, returns null; a set or a lookup leaves the entries of the other
\* keys as they were.
C25_CacheContract ==
    [][pc = "caching" =>
          /\ cacheLog'.last.op = "lookup" =>
                LET key == cacheLog'.last.key
                    at == cacheLog'.last.at
                    value == cacheLog'.last.value
                    latest == cacheLog.sets[key]
                IN  /\ latest = None => value = Null
                    /\ (latest # None /\ latest.at <= at /\ at < latest.at + 60000)
                          => value = latest.payload /\ cache'[key] = cache[key]
                    /\ (latest # None /\ at >= latest.at + 60000)
                          => value = Null /\ cache'[key] = Undefined
                    /\ OtherKeysKept(key)
          /\ cacheLog'.last.op = "set" =>
                /\ cache'[cacheLog'.last.key].payload = cacheLog'.last.value
                /\ OtherKeysKept(cacheLog'.last.key)
          /\ cacheLog'.last.op = "clear" => \A key \in Variants : cache'[key] = Undefined
     ]_vars

\* a lookup exactly 60 seconds after the set found the entry expired and
\* removed it, next to an entry of another key
C25_Witness ==
    /\ pc = "caching"
    /\ cacheLog.last = CacheOperation("lookup", "flipped", 60000, Null)
    /\ cacheLog.sets["flipped"] # None /\ cacheLog.sets["flipped"].at = 0
    /\ cache["flipped"] = Undefined
    /\ cache["velocity"] # Undefined

\* a lookup one millisecond before the expiry returned the payload
C25_WitnessFresh ==
    /\ pc = "caching"
    /\ cacheLog.sets["flipped"] = [payload |-> Str("q"), at |-> 0]
    /\ cacheLog.last = CacheOperation("lookup", "flipped", 59999, Str("q"))

(***************************************************************************)
(* Specification of tag deduplication: a tag list, deduplicated again and  *)
(* again                                                                   *)
(***************************************************************************)
MaxTags == 3

\* applications of deduplicateTags in a run
MaxApplications == 2

TagIds == {"a", " a ", "b", "  "}
TagLabels == {"x", " x ", "y", ""}

TagPool == {Tag(id, label) : id \in TagIds, label \in TagLabels}

InitTags ==
    /\ pc = "tags_ready"
    /\ now = 0
    /\ entry = None
    /\ normalised = None
    /\ candidate = None
    /\ scores = NoScores
    /\ variant = "none"
    /\ data = NoList
    /\ candidates = NoList
    /\ windowHours = 0
    /\ scoredCandidates = NoList
    /\ pos = 0
    /\ categories = NoCategories
    /\ result = None
    /\ ServiceAtRest
    /\ tagLists \in {<<tags>> : tags \in SeqsUpTo(TagPool, MaxTags)}
    /\ cacheLog = NoLog

Deduplicate ==
    /\ pc = "tags_ready"
    /\ Len(tagLists) <= MaxApplications
    /\ tagLists' = Append(tagLists, deduplicateTags(tagLists[Len(tagLists)]))
    /\ UNCHANGED cacheLog
    /\ UNCHANGED serviceVars
    /\ UNCHANGED pipelineVars

NextTags == Deduplicate

SpecTags == InitTags /\ [][NextTags]_vars

\* C15: deduplicateTags is idempotent: deduplicating a deduplicated list
\* gives the same ids and labels in the same order.
C15_Idempotent ==
    \A k \in 2..(Len(tagLists) - 1) : tagLists[k + 1] = tagLists[k]

\* a list was deduplicated twice, and the first pass dropped a duplicate
\* and trimmed a label
C15_Witness ==
    /\ Len(tagLists) = 3
    /\ Len(tagLists[1]) = 3
    /\ Len(tagLists[2]) = 2
    /\ \E k \in 1..3 : tagLists[1][k].label = " x "
    /\ \E k \in 1..2 : tagLists[2][k].label = "x"

(***************************************************************************)
(* Specification of one controller request on a cold cache, against an     *)
(* upstream whose configured URL and response are fixed from the start     *)
(***************************************************************************)
\* what the upstream may hold: the batches of the service runs, and an event
\* closing in 100 hours that every variant's filters accept but for the window
FetchBatches == ServiceBatches \cup {<<DatedEvent(360000000, Undefined)>>}

InitFetch ==
    /\ pc = "serving"
    /\ now = 0
    /\ entry = None
    /\ normalised = None
    /\ candidate = None
    /\ scores = NoScores
    /\ variant = "none"
    /\ data \in FetchBatches
    /\ candidates = NoList
    /\ windowHours = 0
    /\ scoredCandidates = NoList
    /\ pos = 0
    /\ categories = NoCategories
    /\ result = None
    /\ clock = 0
    /\ cache = EmptyCache
    /\ calls = <<IdleCall>>
    /\ upstream \in [base : ApiUrlValues, response : Responses(data)]
    /\ tagLists = NoList
    /\ cacheLog = NoLog

\* index, flipped or velocity of the controller: the service method is
\* called without an argument
Request == \E v \in Variants : CallEnters(1, v, DefaultWindow(v), upstream.base)

\* the upstream's response arrives and the controller replies
Reply == CallResumes(1, upstream.response)

NextFetch == Request \/ Reply

SpecFetch == InitFetch /\ [][NextFetch]_vars

\* bodies fetchEvents accepts: an array, or an object whose events or
\* markets is an array
AcceptedBody(body) ==
    \/ body.t = "array"
    \/ body.t = "object" /\ "events" \in DOMAIN body.f /\ body.f.events.t = "array"
    \/ body.t = "object" /\ "markets" \in DOMAIN body.f /\ body.f.markets.t = "array"

\* the status the claim gives a request, 200 standing for a served one
ClaimedStatus(base, response) ==
    IF base = Str("not a url") THEN 500
    ELSE IF response = Unreachable THEN 502
    ELSE IF response.status >= 500 THEN 502
    ELSE IF response.status < 200 \/ response.status > 299 THEN 500
    ELSE IF response.body = InvalidJson THEN 500
    ELSE IF ~AcceptedBody(response.body) THEN 500
    ELSE 200

RequestDone == pc = "serving" /\ Len(calls) = 1 /\ upstream # None /\ calls[1].pc # "idle"
                   /\ calls[1].pc # "fetching"

\* C17: a fetch failure surfaces as a PolymarketServiceError whose status
\* is 502 for an unreachable endpoint and an upstream status from 500 on, and
\* 500 for another non-ok status, a body that is no JSON, a body of an
\* unaccepted shape and a malformed POLYMARKET_API_URL; the controller
\* replies with that status, and with 500 for any other thrown error.
C17_ErrorStatus ==
    RequestDone =>
        LET claimed == ClaimedStatus(upstream.base, upstream.response)
            outcome == calls[1].outcome
        IN  IF claimed # 200
            THEN /\ outcome = ServiceError(claimed)
                 /\ calls[1].status = claimed
            ELSE \/ outcome.t = "return" /\ calls[1].status = 200
                 \/ outcome = Threw /\ calls[1].status = 500

\* the controller answered 502 to an upstream 503
C17_Witness ==
    /\ RequestDone
    /\ upstream.response # Unreachable /\ upstream.response.status = 503
    /\ calls[1].status = 502

\* the controller answered 500 to an upstream 404
C17_WitnessNotRetryable ==
    /\ RequestDone
    /\ upstream.response # Unreachable /\ upstream.response.status = 404
    /\ upstream.base = Undefined
    /\ calls[1].status = 500

\* the controller answered 500 to an error that is no PolymarketServiceError
C17_WitnessOtherError ==
    RequestDone /\ calls[1].outcome = Threw /\ calls[1].status = 500

\* the summaries of a returned payload
SummariesOf(payload, v) ==
    UNION {{payload[key][i] : i \in 1..Len(payload[key])} : key \in CategoryKeys(v)}

SeventyTwoHoursMillis == 72 * 3600000

\* C23: the flipped endpoint, called as the controller calls it, returns
\* only markets whose end date lies within the next 72 hours of the
\* evaluation instant.
C23_FlippedWithin72Hours ==
    (calls[1].pc = "returned" /\ calls[1].variant = "flipped") =>
        \A s \in SummariesOf(calls[1].outcome.v, "flipped") :
            /\ s.endDate # Null
            /\ s.endDate.ms > calls[1].now
            /\ s.endDate.ms <= calls[1].now + SeventyTwoHoursMillis

\* the flipped endpoint keeps to the window getFlipped defaults to, 168 hours
FlippedWithinDefaultWindow ==
    (calls[1].pc = "returned" /\ calls[1].variant = "flipped") =>
        \A s \in SummariesOf(calls[1].outcome.v, "flipped") :
            /\ s.endDate # Null
            /\ s.endDate.ms > calls[1].now
            /\ s.endDate.ms <= calls[1].now + 168 * 3600000

====
